---------------------------- MODULE Spec2Model ----------------------------
(***************************************************************************)
(* A model of cliplive's backend: the HLS ad gatekeeper                    *)
(* (backend/ad_gatekeeper.py) and the bucket-based stream processor        *)
(* (backend/stream_processor.py) with its capture, analysis and metrics    *)
(* threads.                                                                *)
(*                                                                         *)
(* Text is modelled as a sequence of one-character strings, so that        *)
(* searching, case folding, stripping and prefix tests are computed.       *)
(* An Optional[str] is a record [isNone, chars].                           *)
(***************************************************************************)
EXTENDS Integers, Sequences, FiniteSets, TLC

VARIABLES
    \* ---- AdGatekeeper.has_ads, called on its own
    m3u8_text,          \* the argument of has_ads
    m3u8_frags,         \* number of fragments the argument was built from
    has_ads_result,     \* "unset" before the call, then "true" / "false"
    \* ---- AdGatekeeper.get_clean_twitch_url
    max_retries,        \* self.max_retries
    gk_pc,              \* position in get_clean_twitch_url
    retries,            \* local retries
    gk_url,             \* local url of the current attempt
    playlist_content,   \* local playlist_content of the current attempt
    gk_result,          \* the value returned
    gk_attempts,        \* history: number of streamlink_url calls made
    gk_log,             \* history: one entry per attempt, what it saw
    \* ---- _capture_continuous_bucket behind the gatekeeper
    cap_url,            \* local stream_url of each session's capture
    \* ---- calls of start_processing
    start_result,       \* history: number of calls, value the last one returned
    \* ---- the segment store
    segments,           \* the buffered chunks, oldest first
    seg_files,          \* paths of the chunks whose file exists
    seg_added,          \* history: number of addSegment calls
    seg_gaps,           \* history: number of segments added after a gap
    seg_window,         \* the last resolveWindow call and its result
    \* ---- StreamProcessor fields
    use_adaptive_detection,
    clip_length,
    clip_cooldown,
    last_clip_time,
    is_running,
    consecutive_failures,
    stream_ended,
    last_successful_capture,
    start_time,
    frames_processed,
    clips_generated,
    stream_bucket,      \* the StreamBucket object, or None
    baseline_tracker,   \* the BaselineTracker, as far as the loops read it
    metrics_queue,
    \* ---- the environment
    now,                \* time.time()
    files,              \* bucket files on disk, <<directory, number>>
    dirs,               \* bucket directories on disk
    posts,              \* HTTP notifications sent, by kind
    \* ---- threads, one set per start_processing call
    sessions,           \* start_processing calls that returned True
    stop_pc,            \* position of the caller in stop_processing
    cap_pc, cap_path,   \* _stream_capture_loop: position, local bucket_path
    ana_pc, ana_path,   \* _stream_analysis_loop: position, bucket_info['path']
    ana_trigger,        \* its local trigger_reason
    ana_metrics,        \* its local metrics
    ana_time,           \* its local current_time
    ana_copy,           \* the file save_bucket_as_clip is copying, or <<>>
    met_pc,             \* _metrics_update_loop: position
    \* ---- history, read by the properties only
    failed_captures,    \* failed captures since the last success or start
    run_posts,          \* stream-ended notifications of the current failure run
    last_event,         \* how the capture loop's last iteration went
    last_gate,          \* the cooldown gate's last decision
    stopped_by,         \* what set is_running to false last
    \* ---- a BaselineTracker, called on its own
    tracker,            \* the object: flags, histories, baselines
    tr_time,            \* time.time()
    tr_result,          \* what check_anomaly returned last, and for what input
    tr_last,            \* history: the last call and the tracker before it
    \* ---- AIHighlightDetector._should_trigger_clip
    trigger_history,    \* self.trigger_history
    ai_result,          \* the value returned last
    ai_log,             \* history: the probability of every call so far
    \* ---- AdGatekeeper.validate_url_continuously
    val_pc,             \* position in validate_url_continuously
    val_duration,       \* the argument duration_sec
    val_url,            \* local url
    val_elapsed,        \* time.time() - start_time
    val_checks,         \* local checks
    val_result,         \* how the call ended: "none", "True", "False", "raise"
    val_log,            \* history: how each check went
    \* ---- StreamProcessor._analyze_bucket_sample called on its own
    an_outcome,         \* what the file system and ffmpeg did in the last call
    an_metrics          \* what the last call gave back

adsVars  == <<m3u8_text, m3u8_frags, has_ads_result>>
gateVars == <<max_retries, gk_pc, retries, gk_url, playlist_content,
              gk_result, gk_attempts, gk_log>>
fieldVars == <<use_adaptive_detection, clip_length, clip_cooldown, last_clip_time,
               is_running, consecutive_failures, stream_ended,
               last_successful_capture, start_time, frames_processed,
               clips_generated, stream_bucket, baseline_tracker, metrics_queue>>
envVars == <<now, files, dirs, posts>>
threadVars == <<sessions, stop_pc, cap_pc, cap_path, ana_pc, ana_path, ana_trigger,
                ana_metrics, ana_time, ana_copy, met_pc>>
historyVars == <<failed_captures, run_posts, last_event, last_gate, stopped_by>>
procVars == <<fieldVars, envVars, threadVars, historyVars>>
trackerVars == <<tracker, tr_time, tr_result, tr_last>>
aiVars == <<trigger_history, ai_result, ai_log>>
valVars == <<val_pc, val_duration, val_url, val_elapsed, val_checks, val_result, val_log>>
analyzerVars == <<an_outcome, an_metrics>>
storeVars == <<segments, seg_files, seg_added, seg_gaps, seg_window>>
gatedVars == <<cap_url>>
callVars == <<start_result>>
laterVars == <<storeVars, gatedVars, callVars>>
moreVars == <<analyzerVars, laterVars>>
libVars == <<trackerVars, aiVars, valVars, moreVars>>
vars == <<adsVars, gateVars, procVars, libVars>>

-----------------------------------------------------------------------------
(* Bounds of the model *)

\* fragments concatenated into one has_ads argument
MaxFrags == 2
\* largest max_retries a gatekeeper is constructed with
MaxRetries == 3
\* time.time() when the processor is constructed
Epoch == 100
\* seconds that pass one at a time
MaxTicks == 2
\* iterations of a capture loop followed through a run of failures
MaxCaptures == 11
\* iterations of a capture loop followed next to an analysis loop
FewCaptures == 2
\* bucket samples an analysis loop analyses
MaxFrames == 12
\* the same two, with all three loops
ProcCaptures == 2
ProcFrames == 10
\* iterations of a capture loop followed under fair scheduling
FairCaptures == 1
\* samples given to a BaselineTracker called on its own
MaxSamples == 10
\* calibration periods its clock runs through
MaxPeriods == 2
\* samples above the quiet level among them
MaxLoud == 2
\* calls of _should_trigger_clip on one detector
MaxCalls == 5
\* length, in check intervals, of a continuous validation
MaxDuration == 4
\* buckets started when the files of the store are counted
BucketCaptures == 3
\* lines of an ffmpeg report that is parsed
MaxLines == 2
\* seconds the clock of a tracker with full histories runs through
MaxSeconds == 5
\* segments added to the store, and those of them added after a gap
MaxAdds == 17
MaxGaps == 2
\* seconds of buffered media before the first moment of detection
Lead == 10

-----------------------------------------------------------------------------
(* Text *)

NoneText == [isNone |-> TRUE, chars |-> <<>>]
Str(s) == [isNone |-> FALSE, chars |-> s]

UpperAlpha == <<"A","B","C","D","E","F","G","H","I","J","K","L","M","N","O","P","Q","R","S","T","U","V","W","X","Y","Z">>
LowerAlpha == <<"a","b","c","d","e","f","g","h","i","j","k","l","m","n","o","p","q","r","s","t","u","v","w","x","y","z">>

\* str.lower / str.upper on one ASCII character
LowerOf ==
    [c \in {UpperAlpha[i] : i \in 1..Len(UpperAlpha)} |->
        LowerAlpha[CHOOSE i \in 1..Len(UpperAlpha) : UpperAlpha[i] = c]]
UpperOf ==
    [c \in {LowerAlpha[i] : i \in 1..Len(LowerAlpha)} |->
        UpperAlpha[CHOOSE i \in 1..Len(LowerAlpha) : LowerAlpha[i] = c]]
LowerChar(c) == IF c \in DOMAIN LowerOf THEN LowerOf[c] ELSE c
UpperChar(c) == IF c \in DOMAIN UpperOf THEN UpperOf[c] ELSE c
LowerCase(s) == [i \in 1..Len(s) |-> LowerChar(s[i])]
UpperCase(s) == [i \in 1..Len(s) |-> UpperChar(s[i])]
\* every second letter upper case, the others lower case
MixedCase(s) ==
    [i \in 1..Len(s) |-> IF i % 2 = 1 THEN UpperChar(s[i]) ELSE LowerChar(s[i])]

IsSpace(c) == c \in {" ", "\n", "\t", "\r"}
RECURSIVE LStrip(_)
LStrip(s) == IF s # <<>> /\ IsSpace(Head(s)) THEN LStrip(Tail(s)) ELSE s
RECURSIVE RStrip(_)
RStrip(s) ==
    IF s # <<>> /\ IsSpace(s[Len(s)]) THEN RStrip(SubSeq(s, 1, Len(s) - 1)) ELSE s
\* str.strip()
Strip(s) == RStrip(LStrip(s))
\* str.startswith(p)
StartsWith(s, p) == Len(s) >= Len(p) /\ SubSeq(s, 1, Len(p)) = p

-----------------------------------------------------------------------------
(* AD_RE and has_ads  (ad_gatekeeper.py:15, 68-73) *)

Marker_stitched == <<"t","w","i","t","c","h","-","s","t","i","t","c","h","e","d","-","a","d">>
Marker_quartile == <<"t","w","i","t","c","h","-","a","d","-","q","u","a","r","t","i","l","e">>
Marker_discontinuity == <<"E","X","T","-","X","-","D","I","S","C","O","N","T","I","N","U","I","T","Y">>

\* the alternatives of AD_RE, in the order of the pattern
AD_RE_alternatives == <<Marker_stitched, Marker_quartile, Marker_discontinuity>>

\* re.IGNORECASE: a pattern character and a text character match when they
\* are the same letter in either case
CharMatchesCaseSensitive(p, c) == p = c
CharMatches(p, c) == LowerChar(p) = LowerChar(c)

\* what the pattern means, stated without the matcher: some slice of the text
\* is one of the three markers up to letter case
ContainsMarker(text) ==
    \E m \in {Marker_stitched, Marker_quartile, Marker_discontinuity} :
        \E i \in 1..Len(text) :
            /\ i + Len(m) - 1 <= Len(text)
            /\ LowerCase(SubSeq(text, i, i + Len(m) - 1)) = LowerCase(m)

\* the literal alternative m matches the text starting at position pos
MatchAt(text, pos, m) ==
    /\ pos + Len(m) - 1 <= Len(text)
    /\ \A j \in 1..Len(m) : CharMatches(m[j], text[pos + j - 1])

\* AD_RE.search(text): some start position at which some alternative matches
AD_RE_search_first_only(text) ==
    \E pos \in 1..Len(text) : MatchAt(text, pos, AD_RE_alternatives[1])
AD_RE_search(text) ==
    \E pos \in 1..Len(text) :
        \E k \in 1..Len(AD_RE_alternatives) : MatchAt(text, pos, AD_RE_alternatives[k])

\* has_ads(m3u8_text): `not m3u8_text` is true of None and of ""
has_ads(t) ==
    IF t.isNone \/ t.chars = <<>>
    THEN TRUE
    ELSE AD_RE_search(t.chars)

-----------------------------------------------------------------------------
(* Playlist texts handed to has_ads: concatenations of these fragments *)

Frag_extm3u == <<"#","E","X","T","M","3","U","\n">>
Frag_segment == <<"s","e","g","1",".","t","s","\n">>
Frag_invalid == <<"i","n","v","a","l","i","d"," ","c","o","n","t","e","n","t">>
Frag_stitched_head == <<"t","w","i","t","c","h","-","s","t","i","t","c","h","e","d">>
Frag_ad_tail == <<"-","A","d">>
Frag_ext_x == <<"#","E","X","T","-","X","-">>
Frag_endlist == <<"E","N","D","L","I","S","T","\n">>

\* the three markers as written in the pattern, and in other letter cases
MarkerFragments ==
    UNION { {m, LowerCase(m), UpperCase(m), MixedCase(m)} :
            m \in {Marker_stitched, Marker_quartile, Marker_discontinuity} }
\* lines of a playlist without ads, pieces of markers, and non-playlist text
OtherFragments ==
    {Frag_extm3u, Frag_segment, Frag_invalid, Frag_stitched_head, Frag_ad_tail,
     Frag_ext_x, Frag_endlist}
Fragments == MarkerFragments \cup OtherFragments

\* a playlist starts with the #EXTM3U tag; anything else is not a playlist
IsPlaylist(t) == (~t.isNone) /\ StartsWith(t.chars, SubSeq(Frag_extm3u, 1, 7))

AdsInit ==
    /\ m3u8_text = Str(<<>>)
    /\ m3u8_frags = 0
    /\ has_ads_result = "unset"

\* the caller extends the text it is about to pass
AdsAppend(f) ==
    /\ has_ads_result = "unset"
    /\ ~m3u8_text.isNone
    /\ m3u8_frags < MaxFrags
    /\ m3u8_text' = Str(m3u8_text.chars \o f)
    /\ m3u8_frags' = m3u8_frags + 1
    /\ UNCHANGED <<has_ads_result, gateVars, procVars, libVars>>

\* the caller passes None (test_empty_playlist)
AdsPassNone ==
    /\ has_ads_result = "unset"
    /\ m3u8_frags = 0
    /\ ~m3u8_text.isNone
    /\ m3u8_text' = NoneText
    /\ UNCHANGED <<m3u8_frags, has_ads_result, gateVars, procVars, libVars>>

\* gatekeeper.has_ads(m3u8_text)
AdsCall ==
    /\ has_ads_result = "unset"
    /\ has_ads_result' = IF has_ads(m3u8_text) THEN "true" ELSE "false"
    /\ UNCHANGED <<m3u8_text, m3u8_frags, gateVars, procVars, libVars>>

-----------------------------------------------------------------------------
(* AdGatekeeper.streamlink_url and fetch_playlist  (ad_gatekeeper.py:31-66) *)

Http == <<"h","t","t","p">>
Out_url_a == <<" ","h","t","t","p","s",":","/","/","a","\n">>
Out_url_b == <<"h","t","t","p",":","/","/","b">>
Out_err == <<"e","r","r","o","r","\n">>
Out_blank == <<" ","\n">>

\* What subprocess.run does when streamlink_url calls it: it raises
\* TimeoutExpired, raises another exception (ValueError for capture_output
\* given together with stderr, FileNotFoundError without streamlink), or
\* completes with a return code and a standard output.
SubprocessOutcomes ==
    {[kind |-> "TimeoutExpired", returncode |-> 0, stdout |-> <<>>],
     [kind |-> "OtherException", returncode |-> 0, stdout |-> <<>>]}
    \cup [kind : {"completed"}, returncode : {0, 1},
          stdout : {Out_url_a, Out_url_b, Out_err, Out_blank, <<>>}]

\* the result of a call: an exception leaving it, None, or a string
Raised == [tag |-> "raise", chars |-> <<>>]
RetNone == [tag |-> "none", chars |-> <<>>]
RetStr(s) == [tag |-> "str", chars |-> s]

streamlink_url(o) ==
    IF o.kind = "TimeoutExpired" THEN RetNone
    ELSE IF o.kind = "OtherException" THEN Raised
    ELSE IF o.returncode = 0 /\ Strip(o.stdout) # <<>>
              /\ StartsWith(Strip(o.stdout), Http)
         THEN RetStr(Strip(o.stdout))
         ELSE RetNone

\* Playlist bodies a fetch can deliver
PlaylistSamples ==
    {<<>>,
     Frag_extm3u \o Frag_segment,
     Frag_extm3u \o Marker_stitched,
     Frag_extm3u \o UpperCase(Marker_quartile),
     Frag_ext_x \o LowerCase(Marker_discontinuity),
     Frag_invalid}

\* What urlopen().read().decode() does: raises, or delivers a body
FetchOutcomes ==
    {[kind |-> "raise", body |-> <<>>]} \cup [kind : {"ok"}, body : PlaylistSamples]

\* fetch_playlist: every exception becomes None
fetch_playlist(o) == IF o.kind = "raise" THEN NoneText ELSE Str(o.body)

-----------------------------------------------------------------------------
(* AdGatekeeper.get_clean_twitch_url  (ad_gatekeeper.py:75-124) *)

GateInit ==
    /\ max_retries \in 0..MaxRetries
    /\ gk_pc = "idle"
    /\ retries = 0
    /\ gk_url = RetNone
    /\ playlist_content = NoneText
    /\ gk_result = RetNone
    /\ gk_attempts = 0
    /\ gk_log = <<>>

\* `while retries < self.max_retries`
GkLoopCondInclusive(r, m) == r <= m
GkLoopCond(r, m) == r < m

\* line 88: retries = 0
GkCall ==
    /\ gk_pc = "idle"
    /\ gk_pc' = "while"
    /\ retries' = 0
    /\ UNCHANGED <<max_retries, gk_url, playlist_content, gk_result, gk_attempts, gk_log, adsVars, procVars, libVars>>

\* line 89, and lines 123-124 when the loop ends
GkWhile ==
    /\ gk_pc = "while"
    /\ IF GkLoopCond(retries, max_retries)
       THEN gk_pc' = "resolve" /\ UNCHANGED gk_result
       ELSE gk_pc' = "done" /\ gk_result' = RetNone
    /\ UNCHANGED <<max_retries, retries, gk_url, playlist_content, gk_attempts, gk_log, adsVars, procVars, libVars>>

\* lines 92-97, and 118-121 when streamlink_url raises
GkResolve(o) ==
    /\ gk_pc = "resolve"
    /\ gk_attempts' = gk_attempts + 1
    /\ gk_log' = Append(gk_log, [url |-> streamlink_url(o), fetched |-> FALSE,
                                  playlist |-> NoneText])
    /\ IF streamlink_url(o).tag = "str"
       THEN /\ gk_url' = streamlink_url(o)
            /\ gk_pc' = "fetch"
            /\ UNCHANGED retries
       ELSE /\ gk_url' = IF streamlink_url(o).tag = "none" THEN RetNone ELSE gk_url
            /\ retries' = retries + 1
            /\ gk_pc' = "while"
    /\ UNCHANGED <<max_retries, playlist_content, gk_result, adsVars, procVars, libVars>>

\* lines 100-105
GkFetch(o) ==
    /\ gk_pc = "fetch"
    /\ playlist_content' = fetch_playlist(o)
    /\ gk_log' = [gk_log EXCEPT ![Len(gk_log)] =
                     [@ EXCEPT !.fetched = TRUE, !.playlist = fetch_playlist(o)]]
    /\ IF fetch_playlist(o).isNone \/ fetch_playlist(o).chars = <<>>
       THEN retries' = retries + 1 /\ gk_pc' = "while"
       ELSE gk_pc' = "scan" /\ UNCHANGED retries
    /\ UNCHANGED <<max_retries, gk_url, gk_result, gk_attempts, adsVars, procVars, libVars>>

\* lines 108-116
GkScan ==
    /\ gk_pc = "scan"
    /\ IF has_ads(playlist_content)
       THEN retries' = retries + 1 /\ gk_pc' = "while" /\ UNCHANGED gk_result
       ELSE gk_result' = gk_url /\ gk_pc' = "done" /\ UNCHANGED retries
    /\ UNCHANGED <<max_retries, gk_url, playlist_content, gk_attempts, gk_log, adsVars, procVars, libVars>>

-----------------------------------------------------------------------------
(* StreamProcessor: construction, start_processing, stop_processing
   (stream_processor.py:256-384) *)

\* self.max_consecutive_failures
max_consecutive_failures == 5
\* BaselineTracker(calibration_seconds=60)
calibration_seconds == 60
\* _finalize_calibration: `len(self.audio_levels) < 10`
min_calibration_samples == 10

\* the sets of threads a processor can have started: one per start_processing
Sessions == {1, 2}
\* clip lengths of the configuration and of start_processing
ClipLengths == {2, 3}
\* None, where a time is expected
NoneTime == -1

\* self.stream_bucket is None
NoBucket == [isNone |-> TRUE, dir |-> 0, bucket_counter |-> 0,
             current_bucket_path |-> <<>>, is_recording_bucket |-> FALSE]
\* StreamBucket(clip_duration) with its fresh temporary directory d
NewBucket(d) == [isNone |-> FALSE, dir |-> d, bucket_counter |-> 0,
                 current_bucket_path |-> <<>>, is_recording_bucket |-> FALSE]

\* StreamProcessor.__init__(config)
ProcInit ==
    /\ use_adaptive_detection \in BOOLEAN
    /\ clip_length \in ClipLengths
    /\ clip_cooldown = clip_length
    /\ last_clip_time = 0
    /\ is_running = FALSE
    /\ consecutive_failures = 0
    /\ stream_ended = FALSE
    /\ last_successful_capture = NoneTime
    /\ start_time = NoneTime
    /\ frames_processed = 0
    /\ clips_generated = 0
    /\ stream_bucket = NoBucket
    /\ baseline_tracker = [is_calibrating |-> TRUE, is_calibrated |-> FALSE,
                           calibration_start |-> NoneTime, samples |-> 0]
    /\ metrics_queue = <<>>
    /\ now = Epoch
    /\ files = {}
    /\ dirs = {}
    /\ posts = [stream_ended |-> 0, clip |-> 0]
    /\ sessions = 0
    /\ stop_pc = "idle"
    /\ cap_pc = [s \in Sessions |-> "idle"]
    /\ cap_path = [s \in Sessions |-> <<>>]
    /\ ana_pc = [s \in Sessions |-> "idle"]
    /\ ana_path = [s \in Sessions |-> <<>>]
    /\ ana_trigger = [s \in Sessions |-> "None"]
    /\ ana_metrics = [s \in Sessions |-> "default"]
    /\ ana_time = [s \in Sessions |-> NoneTime]
    /\ ana_copy = [s \in Sessions |-> <<>>]
    /\ met_pc = [s \in Sessions |-> "idle"]
    /\ failed_captures = 0
    /\ run_posts = 0
    /\ last_event = "none"
    /\ last_gate = [time |-> NoneTime, accepted |-> FALSE, previous |-> NoneTime]
    /\ stopped_by = "nothing"

\* BaselineTracker.start_calibration (lines 73-78)
start_calibration(t) ==
    [t EXCEPT !.calibration_start = now, !.is_calibrating = TRUE, !.is_calibrated = FALSE]

\* start_processing(url, audio_threshold, motion_threshold, clip_length) from
\* line 337 on (lines 337-371), where it returns True
StartProcessingStep(cl, limit) ==
    /\ sessions < limit
    /\ LET s == sessions + 1 IN
        /\ clip_length' = cl
        /\ is_running' = TRUE
        /\ consecutive_failures' = 0
        /\ last_successful_capture' = now
        /\ start_time' = now
        /\ stream_bucket' = NewBucket(s)
        /\ dirs' = dirs \cup {s}
        /\ baseline_tracker' = IF use_adaptive_detection
                               THEN start_calibration(baseline_tracker)
                               ELSE baseline_tracker
        /\ sessions' = s
        /\ cap_pc' = [cap_pc EXCEPT ![s] = "top"]
        /\ ana_pc' = [ana_pc EXCEPT ![s] = "top"]
        /\ met_pc' = [met_pc EXCEPT ![s] = "top"]
    /\ failed_captures' = 0
    /\ run_posts' = 0
    /\ last_event' = "none"
    /\ UNCHANGED <<use_adaptive_detection, clip_cooldown, last_clip_time, stream_ended,
                   frames_processed, clips_generated, metrics_queue,
                   now, files, posts, stop_pc, cap_path, ana_path, ana_trigger,
                   ana_metrics, ana_time, ana_copy, last_gate, stopped_by, adsVars, gateVars>>

\* start_processing called on a processor that is not running
StartProcessing(cl, limit) ==
    /\ ~is_running
    /\ StartProcessingStep(cl, limit)
    /\ UNCHANGED libVars

\* lines 334-336: `if self.is_running: ... return False`
StartRefusedNever(running) == FALSE
StartRefused(running) == running

CallInit == start_result = [calls |-> 0, returned |-> FALSE]

\* start_processing called on any processor, running or not, at most
\* MaxCalls times
StartProcessingCall(cl, limit) ==
    /\ start_result.calls < MaxCalls
    /\ IF StartRefused(is_running)
       THEN /\ start_result' = [calls |-> start_result.calls + 1, returned |-> FALSE]
            /\ UNCHANGED <<procVars, adsVars, gateVars>>
       ELSE /\ StartProcessingStep(cl, limit)
            /\ start_result' = [calls |-> start_result.calls + 1, returned |-> TRUE]
    /\ UNCHANGED <<trackerVars, aiVars, valVars, analyzerVars, storeVars, gatedVars>>

\* stop_processing, line 376: self.is_running = False
StopFlag ==
    /\ stop_pc = "idle"
    /\ sessions >= 1
    /\ is_running' = FALSE
    /\ stopped_by' = IF is_running THEN "stop_processing" ELSE stopped_by
    /\ stop_pc' = "flag"
    /\ UNCHANGED <<use_adaptive_detection, clip_length, clip_cooldown, last_clip_time,
                   consecutive_failures, stream_ended, last_successful_capture,
                   start_time, frames_processed, clips_generated, stream_bucket,
                   baseline_tracker, metrics_queue, envVars,
                   sessions, cap_pc, cap_path, ana_pc, ana_path, ana_trigger, ana_metrics, ana_time, ana_copy,
                   met_pc, failed_captures, run_posts, last_event, last_gate,
                   adsVars, gateVars, libVars>>

\* stop_processing, lines 378-379: self.stream_bucket.cleanup(), which removes
\* the bucket directory with everything in it
StopCleanup ==
    /\ stop_pc = "flag"
    /\ IF stream_bucket.isNone
       THEN stop_pc' = "done" /\ UNCHANGED <<files, dirs>>
       ELSE /\ stop_pc' = "cleaned"
            /\ dirs' = dirs \ {stream_bucket.dir}
            /\ files' = {f \in files : f[1] # stream_bucket.dir}
    /\ UNCHANGED <<fieldVars, now, posts, sessions, cap_pc, cap_path, ana_pc, ana_path,
                   ana_trigger, ana_metrics, ana_time, ana_copy, met_pc, historyVars, adsVars, gateVars, libVars>>

\* stop_processing, line 380: self.stream_bucket = None
StopRelease ==
    /\ stop_pc = "cleaned"
    /\ stream_bucket' = NoBucket
    /\ stop_pc' = "done"
    /\ UNCHANGED <<use_adaptive_detection, clip_length, clip_cooldown, last_clip_time,
                   is_running, consecutive_failures, stream_ended,
                   last_successful_capture, start_time, frames_processed,
                   clips_generated, baseline_tracker, metrics_queue, envVars,
                   sessions, cap_pc, cap_path, ana_pc, ana_path, ana_trigger, ana_metrics, ana_time, ana_copy,
                   met_pc, historyVars, adsVars, gateVars, libVars>>

\* the calibration period passes
TickLong ==
    /\ sessions >= 1
    /\ now - Epoch < calibration_seconds
    /\ now' = now + calibration_seconds
    /\ UNCHANGED <<fieldVars, files, dirs, posts, threadVars, historyVars,
                   adsVars, gateVars, libVars>>

\* a second passes
Tick ==
    /\ sessions >= 1
    /\ (now - Epoch) % calibration_seconds < MaxTicks
    /\ now' = now + 1
    /\ UNCHANGED <<fieldVars, files, dirs, posts, threadVars, historyVars,
                   adsVars, gateVars, libVars>>

-----------------------------------------------------------------------------
(* _stream_capture_loop  (stream_processor.py:386-432) with
   StreamBucket.start_new_bucket (195-205), cleanup_old_buckets (237-246)
   and _capture_continuous_bucket (1128-1232) *)

\* line 413: self.consecutive_failures += 1
FailuresAfterFailureTwice(cf) == cf + 2
FailuresAfterFailure(cf) == cf + 1

\* lines 417-418: the stream-ended transition is due
StreamEndDue(cf, ended) == cf >= max_consecutive_failures /\ ~ended

\* lines 400-403: what a successful capture leaves in stream_ended
EndedAfterSuccess(ended) == ended

\* lines 390, 436, 1418: while self.is_running
LoopContinuesRegardless(running) == TRUE
LoopContinues(running) == running

\* lines 429-432, 522-524, 1454-1455: the handler logs the exception and the
\* loop goes on to its next iteration
AfterExceptionExits == "done"
AfterException == "top"

\* lines 411-425: the capture returned False
CaptureFailed(s) ==
    /\ consecutive_failures' = FailuresAfterFailure(consecutive_failures)
    /\ IF StreamEndDue(consecutive_failures', stream_ended)
       THEN /\ stream_ended' = TRUE
            /\ posts' = [posts EXCEPT !.stream_ended = @ + 1]
            /\ run_posts' = run_posts + 1
       ELSE UNCHANGED <<stream_ended, posts, run_posts>>
    /\ failed_captures' = failed_captures + 1
    /\ last_event' = "failure"
    /\ cap_pc' = [cap_pc EXCEPT ![s] = "top"]
    /\ UNCHANGED last_successful_capture

\* lines 429-432: an exception reached the loop's handler
CaptureLoopException(s) ==
    /\ consecutive_failures' = consecutive_failures + 1
    /\ failed_captures' = failed_captures + 1
    /\ last_event' = "exception"
    /\ cap_pc' = [cap_pc EXCEPT ![s] = AfterException]
    /\ UNCHANGED <<stream_ended, posts, run_posts, last_successful_capture>>

\* line 390: while self.is_running.  A running loop starts at most `budget`
\* iterations.
CapTop(s, budget) ==
    /\ cap_pc[s] = "top"
    /\ LoopContinues(is_running) =>
          (~stream_bucket.isNone /\ stream_bucket.bucket_counter < budget)
    /\ cap_pc' = [cap_pc EXCEPT ![s] = IF LoopContinues(is_running) THEN "start"
                                       ELSE "done"]
    /\ UNCHANGED <<fieldVars, envVars, sessions, stop_pc, cap_path, ana_pc, ana_path,
                   ana_trigger, ana_metrics, ana_time, ana_copy, met_pc, historyVars, adsVars, gateVars, libVars>>

\* line 390 while the processor runs without a store (stop_processing has
\* released it, lines 378-380): the loop starts its next iteration all the
\* same, at most `budget` failures in a row
CapTopNoStore(s, budget) ==
    /\ cap_pc[s] = "top"
    /\ LoopContinues(is_running)
    /\ stream_bucket.isNone
    /\ consecutive_failures < budget
    /\ cap_pc' = [cap_pc EXCEPT ![s] = "start"]
    /\ UNCHANGED <<fieldVars, envVars, sessions, stop_pc, cap_path, ana_pc, ana_path,
                   ana_trigger, ana_metrics, ana_time, ana_copy, met_pc, historyVars,
                   adsVars, gateVars, libVars>>

\* line 393: bucket_path = self.stream_bucket.start_new_bucket()
CapStart(s) ==
    /\ cap_pc[s] = "start"
    /\ IF stream_bucket.isNone
       THEN /\ CaptureLoopException(s)
            /\ UNCHANGED <<stream_bucket, cap_path>>
       ELSE /\ stream_bucket' =
                 [stream_bucket EXCEPT
                    !.bucket_counter = @ + 1,
                    !.current_bucket_path =
                        <<stream_bucket.dir, stream_bucket.bucket_counter + 1>>]
            /\ cap_path' = [cap_path EXCEPT
                              ![s] = <<stream_bucket.dir, stream_bucket.bucket_counter + 1>>]
            /\ cap_pc' = [cap_pc EXCEPT ![s] = "capture"]
            /\ UNCHANGED <<consecutive_failures, stream_ended, posts, run_posts,
                           failed_captures, last_event, last_successful_capture>>
    /\ UNCHANGED <<use_adaptive_detection, clip_length, clip_cooldown, last_clip_time,
                   is_running, start_time, frames_processed, clips_generated,
                   baseline_tracker, metrics_queue, now, files, dirs,
                   sessions, stop_pc, ana_pc, ana_path, ana_trigger, ana_metrics, ana_time, ana_copy, met_pc,
                   last_gate, stopped_by, adsVars, gateVars, libVars>>

\* _capture_continuous_bucket up to line 1204.  Without a stream URL (no
\* streamlink, gatekeeper out of retries, streamlink failure) it returns
\* False; with one it sets is_recording_bucket and starts ffmpeg.
CapBeginStep(s, url) ==
    /\ cap_pc[s] = "capture"
    /\ IF ~url
       THEN /\ CaptureFailed(s)
            /\ UNCHANGED stream_bucket
       ELSE IF stream_bucket.isNone
       THEN \* line 1204 raises, and so does the handler's line 1229
            /\ CaptureLoopException(s)
            /\ UNCHANGED stream_bucket
       ELSE /\ stream_bucket' = [stream_bucket EXCEPT !.is_recording_bucket = TRUE]
            /\ cap_pc' = [cap_pc EXCEPT ![s] = "recording"]
            /\ UNCHANGED <<consecutive_failures, stream_ended, posts, run_posts,
                           failed_captures, last_event, last_successful_capture>>
    /\ UNCHANGED <<use_adaptive_detection, clip_length, clip_cooldown, last_clip_time,
                   is_running, start_time, frames_processed, clips_generated,
                   baseline_tracker, metrics_queue, now, files, dirs,
                   sessions, stop_pc, cap_path, ana_pc, ana_path, ana_trigger, ana_metrics, ana_time, ana_copy,
                   met_pc, last_gate, stopped_by, adsVars>>

CapBegin(s, url) == CapBeginStep(s, url) /\ UNCHANGED <<gateVars, libVars>>

\* lines 1141-1187: the stream URL of a capture.  With a gatekeeper and a
\* channel name it is what get_clean_twitch_url returned, None included;
\* the direct call of streamlink is made in the other case only
StreamUrlWithFallback(gatekeeper, channel_name, clean, direct) ==
    IF gatekeeper /\ channel_name /\ clean.tag = "str" THEN clean ELSE direct
StreamUrl(gatekeeper, channel_name, clean, direct) ==
    IF gatekeeper /\ channel_name THEN clean ELSE direct

\* what the resolver and the fetch do in a capture behind the gatekeeper
GatedResolves ==
    {[kind |-> "OtherException", returncode |-> 0, stdout |-> <<>>],
     [kind |-> "completed", returncode |-> 0, stdout |-> Out_url_a],
     [kind |-> "completed", returncode |-> 1, stdout |-> <<>>]}
GatedFetches ==
    {[kind |-> "ok", body |-> Frag_extm3u \o Frag_segment],
     [kind |-> "ok", body |-> Frag_extm3u \o Marker_stitched]}

GatedInit == cap_url = [s \in Sessions |-> RetNone]

\* line 1154: self.ad_gatekeeper.get_clean_twitch_url(channel_name, ...) is
\* called
CapAcquire(s) ==
    /\ cap_pc[s] = "capture"
    /\ GkCall

\* lines 1154-1161 and on, once get_clean_twitch_url has returned; o is what
\* a direct call of streamlink would give
CapBeginGated(s, o) ==
    /\ gk_pc = "done"
    /\ LET direct == IF streamlink_url(o).tag = "str" THEN streamlink_url(o)
                     ELSE RetNone
           stream_url == StreamUrl(TRUE, TRUE, gk_result, direct)
       IN  /\ CapBeginStep(s, stream_url.tag = "str")
           /\ cap_url' = [cap_url EXCEPT ![s] = stream_url]
    /\ UNCHANGED <<gateVars, trackerVars, aiVars, valVars, analyzerVars, storeVars,
                   callVars>>

\* the locals of get_clean_twitch_url are gone once its caller went on
GkReturn ==
    /\ gk_pc = "done"
    /\ \A s \in Sessions : cap_pc[s] # "capture"
    /\ gk_pc' = "idle"
    /\ retries' = 0
    /\ gk_url' = RetNone
    /\ playlist_content' = NoneText
    /\ gk_result' = RetNone
    /\ gk_attempts' = 0
    /\ gk_log' = <<>>
    /\ UNCHANGED <<max_retries, adsVars, procVars, libVars>>

\* _capture_continuous_bucket from line 1205 (ffmpeg has ended or timed out),
\* then lines 398-425 of the loop
CapEnd(s, o) ==
    /\ cap_pc[s] = "recording"
    /\ o = "ok" => cap_path[s][1] \in dirs
    /\ files' = IF o \in {"ok", "small_file"} /\ cap_path[s][1] \in dirs
                THEN files \cup {cap_path[s]}
                ELSE files
    /\ IF stream_bucket.isNone
       THEN \* lines 1206 / 1225 / 1229 raise
            /\ CaptureLoopException(s)
            /\ UNCHANGED stream_bucket
       ELSE /\ stream_bucket' = [stream_bucket EXCEPT !.is_recording_bucket = FALSE]
            /\ IF o = "ok"
               THEN /\ consecutive_failures' = 0
                    /\ last_successful_capture' = now
                    /\ stream_ended' = EndedAfterSuccess(stream_ended)
                    /\ failed_captures' = 0
                    /\ run_posts' = 0
                    /\ last_event' = "success"
                    /\ cap_pc' = [cap_pc EXCEPT ![s] = "cleanup"]
                    /\ UNCHANGED posts
               ELSE CaptureFailed(s)
    /\ UNCHANGED <<use_adaptive_detection, clip_length, clip_cooldown, last_clip_time,
                   is_running, start_time, frames_processed, clips_generated,
                   baseline_tracker, metrics_queue, now, dirs,
                   sessions, stop_pc, cap_path, ana_pc, ana_path, ana_trigger, ana_metrics, ana_time, ana_copy,
                   met_pc, last_gate, stopped_by, adsVars, gateVars, libVars>>

\* lines 407-410, after _extract_current_frame:
\* self.stream_bucket.cleanup_old_buckets()
CapCleanup(s) ==
    /\ cap_pc[s] = "cleanup"
    /\ IF stream_bucket.isNone
       THEN /\ CaptureLoopException(s)
            /\ UNCHANGED files
       ELSE /\ files' = {f \in files : f[1] # stream_bucket.dir
                                        \/ f = stream_bucket.current_bucket_path}
            /\ cap_pc' = [cap_pc EXCEPT ![s] = "top"]
            /\ UNCHANGED <<consecutive_failures, stream_ended, posts, run_posts,
                           failed_captures, last_event, last_successful_capture>>
    /\ UNCHANGED <<use_adaptive_detection, clip_length, clip_cooldown, last_clip_time,
                   is_running, start_time, frames_processed, clips_generated,
                   stream_bucket, baseline_tracker, metrics_queue, now, dirs,
                   sessions, stop_pc, cap_path, ana_pc, ana_path, ana_trigger, ana_metrics, ana_time, ana_copy,
                   met_pc, last_gate, stopped_by, adsVars, gateVars, libVars>>

-----------------------------------------------------------------------------
(* _stream_analysis_loop  (stream_processor.py:434-524) with
   BaselineTracker.add_metrics / check_anomaly (80-164) and
   _create_highlight_clip (760-795) *)

\* what _analyze_bucket_sample returns, by what it means to the detectors:
\* the default metrics (all 0), metrics within the baseline, and metrics
\* whose audio, motion or scene z-score reaches its sensitivity
MetricsClasses == {"default", "quiet", "audio", "motion", "scene"}

\* BaselineTracker.add_metrics: a sample is kept while calibrating, and
\* calibration is finalized once calibration_seconds have passed and 10
\* samples are held.  Of the histories the model keeps the length, up to 10.
add_metrics(t) ==
    IF ~t.is_calibrating THEN t
    ELSE LET n == IF t.samples < min_calibration_samples THEN t.samples + 1
                  ELSE t.samples
         IN IF (now - t.calibration_start) >= calibration_seconds
               /\ ~(n < min_calibration_samples)
            THEN [t EXCEPT !.samples = n, !.is_calibrating = FALSE,
                           !.is_calibrated = TRUE]
            ELSE [t EXCEPT !.samples = n]

\* BaselineTracker.check_anomaly
check_anomaly(t, m) ==
    IF ~t.is_calibrated THEN "None"
    ELSE IF m = "audio" THEN "Audio Anomaly"
    ELSE IF m = "motion" THEN "Motion Anomaly"
    ELSE IF m = "scene" THEN "Scene Anomaly"
    ELSE "None"

\* metrics of each class as _analyze_bucket_sample returns them, in
\* hundredths: a level that reaches a sensitivity is that of a loud sample
ClassMetrics(m) ==
    [frames_analyzed |-> 60,
     audio_level |-> IF m = "default" THEN 0
                     ELSE IF m = "audio" THEN 8000 ELSE 5000,
     motion_level |-> IF m = "default" THEN 0
                      ELSE IF m = "motion" THEN 6000 ELSE 2000,
     scene_change |-> IF m = "default" THEN 0
                      ELSE IF m = "scene" THEN 40 ELSE 10,
     audio_db_change |-> 0]

\* lines 278-279: the thresholds of the fixed rules
audio_threshold == 6
motion_threshold == 30

\* _check_highlight_triggers (lines 708-758) without an AI detector: the
\* fixed rules in their order, on metrics in hundredths
check_highlight_triggers(metrics) ==
    IF metrics.audio_db_change >= audio_threshold * 100 THEN "Audio Spike"
    ELSE IF metrics.audio_level >= 8000 THEN "High Audio Level"
    ELSE IF metrics.motion_level >= motion_threshold * 100 THEN "Motion Detected"
    ELSE IF metrics.scene_change > 30 THEN "Scene Change"
    ELSE IF metrics.audio_level > 6000 /\ metrics.motion_level > 2000
         THEN "High Activity"
    ELSE "None"

\* line 492: (current_time - self.last_clip_time) >= self.clip_cooldown
GateAcceptsStrictly(current_time, last, cooldown) == (current_time - last) > cooldown
GateAccepts(current_time, last, cooldown) == (current_time - last) >= cooldown

\* lines 499-518: the snapshot put on the metrics queue
metrics_update(m) == [frames_processed |-> frames_processed, metrics |-> m]

\* line 436: while self.is_running.  A running loop analyses at most
\* `budget` samples.
AnaTop(s, budget) ==
    /\ ana_pc[s] = "top"
    /\ LoopContinues(is_running) => frames_processed < budget
    /\ ana_pc' = [ana_pc EXCEPT ![s] = IF LoopContinues(is_running) THEN "info"
                                       ELSE "done"]
    /\ UNCHANGED <<fieldVars, envVars, sessions, stop_pc, cap_pc, cap_path, ana_path,
                   ana_trigger, ana_metrics, ana_time, ana_copy, met_pc, historyVars, adsVars, gateVars, libVars>>

\* lines 438-448: no store (AttributeError, handled at 522-524), no bucket
\* yet, or no recording in progress: wait and start over
AnaInfo(s) ==
    /\ ana_pc[s] = "info"
    /\ IF stream_bucket.isNone
       THEN /\ ana_pc' = [ana_pc EXCEPT ![s] = AfterException]
            /\ UNCHANGED ana_path
       ELSE IF stream_bucket.current_bucket_path = <<>>
               \/ ~stream_bucket.is_recording_bucket
       THEN /\ ana_pc' = [ana_pc EXCEPT ![s] = "top"]
            /\ UNCHANGED ana_path
       ELSE /\ ana_pc' = [ana_pc EXCEPT ![s] = "analyze"]
            /\ ana_path' = [ana_path EXCEPT ![s] = stream_bucket.current_bucket_path]
    /\ UNCHANGED <<fieldVars, envVars, sessions, stop_pc, cap_pc, cap_path,
                   ana_trigger, ana_metrics, ana_time, ana_copy, met_pc, historyVars, adsVars, gateVars, libVars>>

\* lines 452-480: analyse the sample, count it, feed the tracker, look for a
\* trigger.  Without an adaptive trigger line 480 names latest_segment,
\* which does not exist: NameError, handled at 522-524.
AnaAnalyze(s, m) ==
    /\ ana_pc[s] = "analyze"
    /\ frames_processed' = frames_processed + 1
    /\ baseline_tracker' = IF use_adaptive_detection
                           THEN add_metrics(baseline_tracker)
                           ELSE baseline_tracker
    /\ LET trigger_reason ==
               IF use_adaptive_detection /\ baseline_tracker'.is_calibrated
               THEN check_anomaly(baseline_tracker', m)
               ELSE "None"
       IN /\ ana_trigger' = [ana_trigger EXCEPT ![s] = trigger_reason]
          /\ ana_pc' = [ana_pc EXCEPT ![s] = IF trigger_reason = "None"
                                             THEN AfterException
                                             ELSE "gate"]
    /\ ana_metrics' = [ana_metrics EXCEPT ![s] = m]
    /\ UNCHANGED <<use_adaptive_detection, clip_length, clip_cooldown, last_clip_time,
                   is_running, consecutive_failures, stream_ended,
                   last_successful_capture, start_time, clips_generated,
                   stream_bucket, metrics_queue, envVars, sessions, stop_pc, cap_pc,
                   cap_path, ana_path, ana_time, ana_copy, met_pc, historyVars, adsVars, gateVars, libVars>>

\* lines 491-492 and 496-518: the cooldown gate; a rejected trigger goes
\* straight to the metrics queue
AnaGate(s) ==
    /\ ana_pc[s] = "gate"
    /\ LET current_time == now
           accepted == GateAccepts(current_time, last_clip_time, clip_cooldown)
       IN /\ ana_time' = [ana_time EXCEPT ![s] = current_time]
          /\ last_gate' = [time |-> current_time, accepted |-> accepted,
                           previous |-> IF last_gate.accepted THEN last_gate.time
                                        ELSE last_gate.previous]
          /\ IF accepted
             THEN /\ ana_pc' = [ana_pc EXCEPT ![s] = "clip"]
                  /\ UNCHANGED metrics_queue
             ELSE /\ ana_pc' = [ana_pc EXCEPT ![s] = "top"]
                  /\ metrics_queue' = Append(metrics_queue, metrics_update(ana_metrics[s]))
    /\ UNCHANGED <<use_adaptive_detection, clip_length, clip_cooldown, last_clip_time,
                   is_running, consecutive_failures, stream_ended,
                   last_successful_capture, start_time, frames_processed,
                   clips_generated, stream_bucket, baseline_tracker, envVars,
                   sessions, stop_pc, cap_pc, cap_path, ana_path, ana_trigger, ana_metrics,
                   ana_copy, met_pc, failed_captures, run_posts, last_event, stopped_by,
                   adsVars, gateVars, libVars>>

\* save_bucket_as_clip (lines 218-235) reads the store and leaves it as it is
StoreAfterCopyReleased(b) == NoBucket
StoreAfterCopy(b) == b

\* line 494, _create_highlight_clip up to the copy (lines 762-779, 220-227):
\* with a store, a current bucket and its file on disk (written: ffmpeg has
\* put the file of the bucket it is recording on disk by now)
\* shutil.copy2 starts on that file; otherwise there is nothing to copy
AnaClipBegin(s, written) ==
    /\ ana_pc[s] = "clip"
    /\ LET path == stream_bucket.current_bucket_path
           present == /\ ~stream_bucket.isNone
                      /\ path # <<>>
                      /\ path[1] \in dirs
                      /\ (path \in files \/ written)
       IN /\ written => present
          /\ ana_copy' = [ana_copy EXCEPT ![s] = IF present THEN path ELSE <<>>]
    /\ ana_pc' = [ana_pc EXCEPT ![s] = "copying"]
    /\ UNCHANGED <<fieldVars, envVars, sessions, stop_pc, cap_pc, cap_path, ana_path,
                   ana_trigger, ana_metrics, ana_time, met_pc, historyVars,
                   adsVars, gateVars, libVars>>

\* the copy ends (lines 227-235), then lines 781-795 and 495-518: a copy
\* that worked (copy_ok) is notified and counted; last_clip_time and the
\* metrics queue whatever became of the clip
ClipsAfterCopyAlways(clips, copy_ok) == clips + 1
ClipsAfterCopy(clips, copy_ok) == IF copy_ok THEN clips + 1 ELSE clips

\* line 495: self.last_clip_time = current_time, after _create_highlight_clip
\* has returned
ClipTimeAfterCopied(last, current_time, copy_ok) ==
    IF copy_ok THEN current_time ELSE last
ClipTimeAfter(last, current_time, copy_ok) == current_time

AnaClip(s, copy_ok) ==
    /\ ana_pc[s] = "copying"
    /\ copy_ok => ana_copy[s] # <<>>
    /\ clips_generated' = ClipsAfterCopy(clips_generated, copy_ok)
    /\ posts' = [posts EXCEPT !.clip = IF copy_ok THEN @ + 1 ELSE @]
    /\ stream_bucket' = StoreAfterCopy(stream_bucket)
    /\ ana_copy' = [ana_copy EXCEPT ![s] = <<>>]
    /\ last_clip_time' = ClipTimeAfter(last_clip_time, ana_time[s], copy_ok)
    /\ metrics_queue' = Append(metrics_queue, metrics_update(ana_metrics[s]))
    /\ ana_pc' = [ana_pc EXCEPT ![s] = "top"]
    /\ UNCHANGED <<use_adaptive_detection, clip_length, clip_cooldown,
                   is_running, consecutive_failures, stream_ended,
                   last_successful_capture, start_time, frames_processed,
                   baseline_tracker, now, files, dirs,
                   sessions, stop_pc, cap_pc, cap_path, ana_path, ana_trigger,
                   ana_metrics, ana_time, met_pc, historyVars,
                   adsVars, gateVars, libVars>>

-----------------------------------------------------------------------------
(* _metrics_update_loop  (stream_processor.py:1416-1457) *)

\* line 1418: while self.is_running
MetTop(s) ==
    /\ met_pc[s] = "top"
    /\ met_pc' = [met_pc EXCEPT ![s] = IF LoopContinues(is_running) THEN "report"
                                       ELSE "done"]
    /\ UNCHANGED <<fieldVars, envVars, sessions, stop_pc, cap_pc, cap_path, ana_pc,
                   ana_path, ana_trigger, ana_metrics, ana_time, ana_copy, historyVars, adsVars, gateVars, libVars>>

\* lines 1419-1457: take the oldest snapshot off the queue, if there is one,
\* and post the report; a failed post is logged
MetReport(s) ==
    /\ met_pc[s] = "report"
    /\ metrics_queue' = IF metrics_queue = <<>> THEN <<>> ELSE Tail(metrics_queue)
    /\ met_pc' = [met_pc EXCEPT ![s] = "top"]
    /\ UNCHANGED <<use_adaptive_detection, clip_length, clip_cooldown, last_clip_time,
                   is_running, consecutive_failures, stream_ended,
                   last_successful_capture, start_time, frames_processed,
                   clips_generated, stream_bucket, baseline_tracker, envVars,
                   sessions, stop_pc, cap_pc, cap_path, ana_pc, ana_path, ana_trigger,
                   ana_metrics, ana_time, ana_copy, historyVars, adsVars, gateVars, libVars>>

-----------------------------------------------------------------------------
(* The segmented assembler: _create_ffmpeg_clip (797-916),
   _create_realtime_clip (918-987), _create_standard_clip (1090-1126).
   Nothing in the repository calls them.  self.stream_buffer is None
   (line 260), so a call finds no real segment (line 815) or fails on
   self.stream_buffer.temp_dir (lines 915, 986, 1125): it returns False and
   has cleared is_running. *)
CreateSegmentedClip ==
    /\ is_running
    /\ is_running' = FALSE
    /\ stopped_by' = "assembler"
    /\ UNCHANGED <<use_adaptive_detection, clip_length, clip_cooldown, last_clip_time,
                   consecutive_failures, stream_ended, last_successful_capture,
                   start_time, frames_processed, clips_generated, stream_bucket,
                   baseline_tracker, metrics_queue, envVars, threadVars,
                   failed_captures, run_posts, last_event, last_gate,
                   adsVars, gateVars, libVars>>

-----------------------------------------------------------------------------
(* BaselineTracker on its own  (stream_processor.py:43-176).
   Levels are integers: audio and motion in their own unit, scene change in
   hundredths.  A mean and a variance (the square of a std) are fractions
   <<numerator, denominator>>; comparisons of z-scores are made on squares,
   in exact arithmetic. *)

\* deque(maxlen=1000)
history_maxlen == 1000
\* sensitivities, in standard deviations: 2.5, 2.0, 1.5
audio_sensitivity == <<5, 2>>
motion_sensitivity == <<2, 1>>
scene_sensitivity == <<3, 2>>
\* the floors of the three std: 1.0, 1.0 and 0.1, squared
audio_floor == <<1, 1>>
motion_floor == <<1, 1>>
scene_floor == <<100, 1>>
\* {'mean': 0, 'std': 1}, the baseline of a new tracker
InitialBaseline(unit) == [mean |-> <<0, 1>>, var |-> <<unit * unit, 1>>]
\* the fallback baselines of lines 134-136: 50 +- 10, 30 +- 15, 0.1 +- 0.2
DefaultAudioBaseline == [mean |-> <<50, 1>>, var |-> <<100, 1>>]
DefaultMotionBaseline == [mean |-> <<30, 1>>, var |-> <<225, 1>>]
DefaultSceneBaseline == [mean |-> <<10, 1>>, var |-> <<400, 1>>]

\* a/b >= c/d for b, d > 0 and a, c >= 0, by the integer parts
RECURSIVE FracGeq(_, _, _, _)
FracGeq(a, b, c, d) ==
    IF a \div b # c \div d THEN a \div b > c \div d
    ELSE IF c % d = 0 THEN TRUE
    ELSE IF a % b = 0 THEN FALSE
    ELSE FracGeq(d, c % d, b, a % b)
RatGeq(x, y) == FracGeq(x[1], x[2], y[1], y[2])
RatMaxFirst(x, y) == x
RatMax(x, y) == IF RatGeq(x, y) THEN x ELSE y

RECURSIVE SeqSum(_)
SeqSum(xs) == IF xs = <<>> THEN 0 ELSE Head(xs) + SeqSum(Tail(xs))
RECURSIVE SeqSumSq(_)
SeqSumSq(xs) == IF xs = <<>> THEN 0 ELSE Head(xs) * Head(xs) + SeqSumSq(Tail(xs))

\* statistics.mean(xs), and statistics.stdev(xs) squared, for two samples or more
Mean(xs) == <<SeqSum(xs), Len(xs)>>
Variance(xs) ==
    <<Len(xs) * SeqSumSq(xs) - SeqSum(xs) * SeqSum(xs), Len(xs) * (Len(xs) - 1)>>

\* lines 108-121: {'mean': mean, 'std': max(std, floor)}
ComputedBaseline(xs, floor) == [mean |-> Mean(xs), var |-> RatMax(Variance(xs), floor)]

\* BaselineTracker.__init__
NewTracker ==
    [calibration_start |-> NoneTime, is_calibrating |-> TRUE, is_calibrated |-> FALSE,
     audio_levels |-> <<>>, motion_levels |-> <<>>, scene_changes |-> <<>>,
     audio_baseline |-> InitialBaseline(1),
     motion_baseline |-> InitialBaseline(1),
     scene_baseline |-> InitialBaseline(100)]

\* deque.append with maxlen
DequeAppendUnbounded(h, x) == Append(h, x)
DequeAppend(h, x) ==
    IF Len(h) = history_maxlen THEN Append(Tail(h), x) ELSE Append(h, x)

\* BaselineTracker.start_calibration at time t
Tracker_start_calibration(tr, t) ==
    [tr EXCEPT !.calibration_start = t, !.is_calibrating = TRUE,
               !.is_calibrated = FALSE]

\* `len(self.audio_levels) < 10`: too few samples to finalize
TooFewSamplesLenient(n) == n < min_calibration_samples - 1
TooFewSamples(n) == n < min_calibration_samples

\* BaselineTracker._finalize_calibration; stats_ok is false when the
\* statistics raise and the handler of lines 131-139 takes the defaults
Tracker_finalize_calibration(tr, stats_ok) ==
    IF TooFewSamples(Len(tr.audio_levels)) THEN tr
    ELSE IF stats_ok
    THEN [tr EXCEPT
            !.audio_baseline = ComputedBaseline(tr.audio_levels, audio_floor),
            !.motion_baseline = ComputedBaseline(tr.motion_levels, motion_floor),
            !.scene_baseline = ComputedBaseline(tr.scene_changes, scene_floor),
            !.is_calibrating = FALSE, !.is_calibrated = TRUE]
    ELSE [tr EXCEPT
            !.audio_baseline = DefaultAudioBaseline,
            !.motion_baseline = DefaultMotionBaseline,
            !.scene_baseline = DefaultSceneBaseline,
            !.is_calibrating = FALSE, !.is_calibrated = TRUE]

\* the samples are appended (lines 82-85)
Tracker_append(tr, x) ==
    [tr EXCEPT !.audio_levels = DequeAppend(@, x[1]),
               !.motion_levels = DequeAppend(@, x[2]),
               !.scene_changes = DequeAppend(@, x[3])]

\* `if not self.is_calibrating: return`
AddMetricsSkipsNever(tr) == FALSE
AddMetricsSkips(tr) == ~tr.is_calibrating

\* line 88 raises TypeError when calibration_start is None
AddMetricsRaises(tr) == tr.is_calibrating /\ tr.calibration_start = NoneTime

\* BaselineTracker.add_metrics(audio, motion, scene) at time t: the tracker
\* after the call
Tracker_add_metrics(tr, x, t, stats_ok) ==
    IF AddMetricsSkips(tr) THEN tr
    ELSE IF tr.calibration_start = NoneTime THEN Tracker_append(tr, x)
    ELSE IF (t - tr.calibration_start) >= calibration_seconds
    THEN Tracker_finalize_calibration(Tracker_append(tr, x), stats_ok)
    ELSE Tracker_append(tr, x)

\* z >= sensitivity, for z = (value - mean) / std
ZReaches(value, base, sens) ==
    LET d == value * base.mean[2] - base.mean[1]
    IN /\ d >= 0
       /\ RatGeq(<<d * d * base.var[2], base.mean[2] * base.mean[2] * base.var[1]>>,
                 <<sens[1] * sens[1], sens[2] * sens[2]>>)

\* (z / sensitivity) * 100 >= c, for z >= 0 and c >= 0
PercentReaches(c, value, base, sens) ==
    LET d == value * base.mean[2] - base.mean[1]
    IN RatGeq(<<d * d * base.var[2] * sens[2] * sens[2],
                base.mean[2] * base.mean[2] * base.var[1] * sens[1] * sens[1]>>,
              <<c * c, 10000>>)

\* int((z / sensitivity) * 100), as far as top
IntPercent(value, base, sens, top) ==
    IF PercentReaches(top, value, base, sens) THEN top
    ELSE CHOOSE c \in 0..(top - 1) :
            /\ PercentReaches(c, value, base, sens)
            /\ ~PercentReaches(c + 1, value, base, sens)

\* lines 153, 157, 161: min(100, int((z / sensitivity) * 100))
anomaly_confidence_halved(value, base, sens) ==
    IntPercent(value, base, <<2 * sens[1], sens[2]>>, 100)
anomaly_confidence(value, base, sens) == IntPercent(value, base, sens, 100)

NoAnomaly == [kind |-> "None", confidence |-> 0]

\* the order of the channels in lines 152-162
ChannelOrderMotionFirst == <<"motion", "audio", "scene">>
ChannelOrder == <<"audio", "motion", "scene">>

\* what check_anomaly has to say about one channel
ChannelAnomaly(tr, ch, x) ==
    IF ch = "audio"
    THEN IF ZReaches(x[1], tr.audio_baseline, audio_sensitivity)
         THEN [kind |-> "Audio Anomaly",
               confidence |-> anomaly_confidence(x[1], tr.audio_baseline,
                                                 audio_sensitivity)]
         ELSE NoAnomaly
    ELSE IF ch = "motion"
    THEN IF ZReaches(x[2], tr.motion_baseline, motion_sensitivity)
         THEN [kind |-> "Motion Anomaly",
               confidence |-> anomaly_confidence(x[2], tr.motion_baseline,
                                                 motion_sensitivity)]
         ELSE NoAnomaly
    ELSE IF ZReaches(x[3], tr.scene_baseline, scene_sensitivity)
         THEN [kind |-> "Scene Anomaly",
               confidence |-> anomaly_confidence(x[3], tr.scene_baseline,
                                                 scene_sensitivity)]
         ELSE NoAnomaly

\* `if not self.is_calibrated: return None`
AnomalyGuardOpen(tr) == TRUE
AnomalyGuard(tr) == tr.is_calibrated

\* BaselineTracker.check_anomaly(audio, motion, scene)
Tracker_check_anomaly(tr, x) ==
    IF ~AnomalyGuard(tr) THEN NoAnomaly
    ELSE LET r == [k \in 1..3 |-> ChannelAnomaly(tr, ChannelOrder[k], x)]
         IN IF r[1].kind # "None" THEN r[1]
            ELSE IF r[2].kind # "None" THEN r[2]
            ELSE r[3]

\* samples a calibration is fed, and levels check_anomaly is asked about
QuietSample == <<50, 30, 10>>
LoudSample == <<80, 60, 40>>
TrackerSamples == {QuietSample, LoudSample}
RECURSIVE Occurrences(_, _)
Occurrences(xs, v) ==
    IF xs = <<>> THEN 0
    ELSE (IF Head(xs) = v THEN 1 ELSE 0) + Occurrences(Tail(xs), v)
TrackerInputs == {50, 80} \X {30, 60} \X {10, 40}

NoCall == [op |-> "none", before |-> NewTracker, time |-> NoneTime,
           x |-> <<0, 0, 0>>, raised |-> FALSE]
NoResult == [x |-> <<0, 0, 0>>, anomaly |-> NoAnomaly, asked |-> FALSE]

TrackerInit ==
    /\ tracker = NewTracker
    /\ tr_time = Epoch
    /\ tr_result = NoResult
    /\ tr_last = NoCall

TrStartCalibration ==
    /\ tracker' = Tracker_start_calibration(tracker, tr_time)
    /\ tr_last' = [NoCall EXCEPT !.op = "start_calibration", !.before = tracker,
                                 !.time = tr_time]
    /\ tr_result' = NoResult
    /\ UNCHANGED <<tr_time, adsVars, gateVars, procVars, aiVars, valVars, moreVars>>

TrAddMetricsCall(x, stats_ok) ==
    /\ tracker' = Tracker_add_metrics(tracker, x, tr_time, stats_ok)
    /\ tr_last' = [op |-> "add_metrics", before |-> tracker, time |-> tr_time,
                   x |-> x, raised |-> AddMetricsRaises(tracker)]
    /\ tr_result' = NoResult
    /\ UNCHANGED <<tr_time, adsVars, gateVars, procVars, aiVars, valVars, moreVars>>

TrAddMetrics(x, stats_ok) ==
    /\ tracker.is_calibrating => Len(tracker.audio_levels) < MaxSamples
    /\ (tracker.is_calibrating /\ x = LoudSample)
          => Occurrences(tracker.audio_levels, LoudSample[1]) < MaxLoud
    /\ TrAddMetricsCall(x, stats_ok)

\* add_metrics called once a second at most, as the analysis loop does
TrAddMetricsPaced(x) ==
    /\ tr_last.time # tr_time
    /\ TrAddMetricsCall(x, TRUE)

\* a second passes
TrSecond ==
    /\ tr_time < Epoch + MaxSeconds
    /\ tr_time' = tr_time + 1
    /\ UNCHANGED <<tracker, tr_result, tr_last, adsVars, gateVars, procVars,
                   aiVars, valVars, moreVars>>

\* a tracker whose calibration started now and that was given 998 samples
\* since, loud and quiet in turn
AlmostFull(k) ==
    [i \in 1..(history_maxlen - 2) |-> IF i % 2 = 1 THEN LoudSample[k]
                                       ELSE QuietSample[k]]
HistoryInit ==
    /\ tracker = [Tracker_start_calibration(NewTracker, Epoch) EXCEPT
                    !.audio_levels = AlmostFull(1),
                    !.motion_levels = AlmostFull(2),
                    !.scene_changes = AlmostFull(3)]
    /\ tr_time = Epoch
    /\ tr_result = NoResult
    /\ tr_last = NoCall

TrCheckAnomaly(x) ==
    /\ tr_result' = [x |-> x, anomaly |-> Tracker_check_anomaly(tracker, x),
                     asked |-> TRUE]
    /\ tr_last' = [NoCall EXCEPT !.op = "check_anomaly", !.before = tracker,
                                 !.time = tr_time, !.x = x]
    /\ UNCHANGED <<tracker, tr_time, adsVars, gateVars, procVars, aiVars, valVars, moreVars>>

\* a calibration period passes
TrTick ==
    /\ tr_time < Epoch + MaxPeriods * calibration_seconds
    /\ tr_time' = tr_time + calibration_seconds
    /\ UNCHANGED <<tracker, tr_result, tr_last, adsVars, gateVars, procVars,
                   aiVars, valVars, moreVars>>

\* a tracker after start_calibration at Epoch and ten quiet samples, the
\* tenth given once the calibration period was over: Calibrated
CalibratedInit ==
    /\ tracker =
          Tracker_finalize_calibration(
              [Tracker_start_calibration(NewTracker, Epoch) EXCEPT
                  !.audio_levels = [i \in 1..min_calibration_samples |-> QuietSample[1]],
                  !.motion_levels = [i \in 1..min_calibration_samples |-> QuietSample[2]],
                  !.scene_changes = [i \in 1..min_calibration_samples |-> QuietSample[3]]],
              TRUE)
    /\ tr_time = Epoch + calibration_seconds
    /\ tr_result = NoResult
    /\ tr_last = NoCall

\* start_calibration called on a Calibrated tracker
TrRecalibrate ==
    /\ tracker.is_calibrated
    /\ TrStartCalibration

\* add_metrics with a loud sample, twice MaxSamples samples at most in the
\* histories
TrAddLoud ==
    /\ Len(tracker.audio_levels) < 2 * MaxSamples
    /\ TrAddMetricsCall(LoudSample, TRUE)

-----------------------------------------------------------------------------
(* AIDetector._should_trigger_clip  (ai_detector.py:380-383, 429-442).
   Probabilities are in hundredths. *)

\* self.excitement_threshold = 0.80
excitement_threshold == 80
\* self.consecutive_triggers = 2
consecutive_triggers == 2

\* ml_probability >= self.excitement_threshold
IsHighStrictly(p) == p > excitement_threshold
IsHigh(p) == p >= excitement_threshold

RECURSIVE All(_)
All(bs) == IF bs = <<>> THEN TRUE ELSE Head(bs) /\ All(Tail(bs))

\* self.trigger_history after the call
history_after(h, p) ==
    LET appended == Append(h, IsHigh(p))
    IN IF Len(appended) > consecutive_triggers THEN Tail(appended) ELSE appended

\* the value _should_trigger_clip returns
should_trigger_clip(h, p) ==
    LET kept == history_after(h, p)
    IN IF Len(kept) >= consecutive_triggers
       THEN All(SubSeq(kept, Len(kept) - consecutive_triggers + 1, Len(kept)))
       ELSE FALSE

Probabilities == {79, 80, 81}

AiInit == trigger_history = <<>> /\ ai_result = FALSE /\ ai_log = <<>>

AiCall(p) ==
    /\ Len(ai_log) < MaxCalls
    /\ trigger_history' = history_after(trigger_history, p)
    /\ ai_result' = should_trigger_clip(trigger_history, p)
    /\ ai_log' = Append(ai_log, p)
    /\ UNCHANGED <<adsVars, gateVars, procVars, trackerVars, valVars, moreVars>>

-----------------------------------------------------------------------------
(* AdGatekeeper.validate_url_continuously  (ad_gatekeeper.py:126-159).
   Time is counted in check intervals since start_time. *)

ValInit ==
    /\ val_pc = "idle"
    /\ val_duration = 0
    /\ val_url = RetNone
    /\ val_elapsed = 0
    /\ val_checks = 0
    /\ val_result = "none"
    /\ val_log = <<>>

\* lines 140-141
ValCall(duration_sec) ==
    /\ val_pc = "idle"
    /\ val_pc' = "while"
    /\ val_duration' = duration_sec
    /\ val_url' = RetNone
    /\ val_elapsed' = 0
    /\ val_checks' = 0
    /\ val_result' = "none"
    /\ val_log' = <<>>
    /\ UNCHANGED <<adsVars, gateVars, procVars, trackerVars, aiVars, moreVars>>

\* line 143: while (time.time() - start_time) < duration_sec; lines 158-159
ValWhile ==
    /\ val_pc = "while"
    /\ IF val_elapsed < val_duration
       THEN val_pc' = "resolve" /\ UNCHANGED val_result
       ELSE val_pc' = "idle" /\ val_result' = "True"
    /\ UNCHANGED <<val_duration, val_url, val_elapsed, val_checks, val_log, adsVars, gateVars, procVars,
                   trackerVars, aiVars, moreVars>>

\* lines 144-147; an exception raised by streamlink_url leaves
\* validate_url_continuously, which has no handler
ValResolve(o) ==
    /\ val_pc = "resolve"
    /\ val_url' = streamlink_url(o)
    /\ IF streamlink_url(o).tag = "raise"
       THEN /\ val_result' = "raise"
            /\ val_pc' = "idle"
            /\ val_log' = Append(val_log, "raise")
       ELSE IF streamlink_url(o).tag = "none"
       THEN /\ val_result' = "False"
            /\ val_pc' = "idle"
            /\ val_log' = Append(val_log, "fail")
       ELSE /\ val_pc' = "fetch"
            /\ UNCHANGED <<val_result, val_log>>
    /\ UNCHANGED <<val_duration, val_elapsed, val_checks, adsVars, gateVars,
                   procVars, trackerVars, aiVars, moreVars>>

\* lines 149-155: the playlist is fetched and scanned; a clean one counts
\* as a check and the loop sleeps for an interval or longer
ValFetch(o, slept) ==
    /\ val_pc = "fetch"
    /\ IF fetch_playlist(o).isNone \/ fetch_playlist(o).chars = <<>>
          \/ has_ads(fetch_playlist(o))
       THEN /\ val_result' = "False"
            /\ val_pc' = "idle"
            /\ val_log' = Append(val_log, "fail")
            /\ UNCHANGED <<val_checks, val_elapsed>>
       ELSE /\ val_checks' = val_checks + 1
            /\ val_elapsed' = val_elapsed + slept
            /\ val_log' = Append(val_log, "pass")
            /\ val_pc' = "while"
            /\ UNCHANGED val_result
    /\ UNCHANGED <<val_duration, val_url, adsVars, gateVars, procVars,
                   trackerVars, aiVars, moreVars>>

-----------------------------------------------------------------------------
(* _analyze_bucket_sample, _analyze_with_ffmpeg, _get_default_metrics
   (stream_processor.py:526-570, 599-706).  Levels are in hundredths. *)

\* _get_default_metrics
default_metrics ==
    [frames_analyzed |-> 60, audio_level |-> 0, motion_level |-> 0,
     scene_change |-> 0, audio_db_change |-> 0]

Min2(a, b) == IF a < b THEN a ELSE b
Max2(a, b) == IF a > b THEN a ELSE b

\* lines of the report ffmpeg writes on stderr: an RMS line with a level in
\* dB, an RMS line whose number float() refuses, a scene score line, a scene
\* score line whose number float() refuses, any other line
ReportLines ==
    [kind : {"rms"}, v : {-60, -40, -25, -10}]
    \cup [kind : {"scene"}, v : {20, 35}]
    \cup [kind : {"rms_garbled", "scene_garbled", "other"}, v : {0}]
Reports == UNION {[1..n -> ReportLines] : n \in 0..MaxLines}

\* lines 654-659: the spike metric of an RMS level
audio_change(rms_db) ==
    IF rms_db > -20 THEN 1500 + (rms_db + 20) * 20
    ELSE IF rms_db > -30 THEN 800 + (rms_db + 30) * 70
    ELSE Max2(0, (rms_db + 50) * 20)

\* lines 643-676: the loop over the lines of the report; st carries metrics,
\* audio_levels and scene_scores as they stand
RECURSIVE parse_lines(_, _)
parse_lines(lines, st) ==
    IF lines = <<>> THEN st
    ELSE LET l == Head(lines)
         IN parse_lines(Tail(lines),
               IF l.kind = "rms"
               THEN [st EXCEPT
                       !.audio_levels = Append(@, Min2(2000, Max2(0, audio_change(l.v)))),
                       !.metrics.audio_level = Max2(0, Min2(10000, (l.v + 60) * 167))]
               ELSE IF l.kind = "scene"
               THEN [st EXCEPT !.scene_scores = Append(@, l.v),
                               !.metrics.scene_change = l.v]
               ELSE st)

RECURSIVE SeqMax(_)
SeqMax(xs) == IF Len(xs) = 1 THEN xs[1] ELSE Max2(Head(xs), SeqMax(Tail(xs)))

\* lines 691-693: metrics['audio_level'] += random.uniform(0, 2) and
\* metrics['motion_level'] += random.uniform(0, 3)
NoVariation(m, noise) == m
NaturalVariation(m, noise) ==
    [m EXCEPT !.audio_level = @ + noise[1], !.motion_level = @ + noise[2]]

\* _analyze_with_ffmpeg on a report, the random numbers being `noise`
analyze_report(lines, noise) ==
    LET st == parse_lines(lines, [metrics |-> [default_metrics EXCEPT
                                                 !.frames_analyzed = 60],
                                  audio_levels |-> <<>>, scene_scores |-> <<>>])
        m1 == IF st.audio_levels # <<>>
              THEN [st.metrics EXCEPT !.audio_db_change = SeqMax(st.audio_levels)]
              ELSE st.metrics
        m2 == IF st.scene_scores # <<>>
              THEN [m1 EXCEPT !.scene_change = SeqMax(st.scene_scores),
                              !.motion_level = Min2(10000, SeqMax(st.scene_scores) * 100)]
              ELSE m1
    IN NaturalVariation(m2, noise)

\* what can happen in a call: the bucket file is missing or under 100000
\* bytes, the store is gone, the extraction of the sample fails or times
\* out, the analysis times out or raises, or ffmpeg delivers a report
AnalyzerFailures ==
    {"missing", "small", "no_store", "extract_failed", "extract_timeout",
     "analyzer_timeout", "analyzer_exception"}
Noises == {0, 100, 200} \X {0, 300}
AnalyzerOutcomes ==
    [kind : AnalyzerFailures, lines : {<<>>}, noise : {<<0, 0>>}]
    \cup [kind : {"report"}, lines : Reports, noise : Noises]

\* _analyze_bucket_sample: every failure is caught (lines 568-570, 695-696)
\* and answered with the default metrics
analyze_bucket_sample(o) ==
    IF o.kind \in AnalyzerFailures
    THEN [raised |-> FALSE, metrics |-> default_metrics]
    ELSE [raised |-> FALSE, metrics |-> analyze_report(o.lines, o.noise)]

NoOutcome == [kind |-> "none", lines |-> <<>>, noise |-> <<0, 0>>]

AnalyzerInit ==
    /\ an_outcome = NoOutcome
    /\ an_metrics = [raised |-> FALSE, metrics |-> default_metrics]

\* the cycle is over and the metrics are dropped
AnForget ==
    /\ an_outcome # NoOutcome
    /\ an_outcome' = NoOutcome
    /\ an_metrics' = [raised |-> FALSE, metrics |-> default_metrics]
    /\ UNCHANGED <<adsVars, gateVars, procVars, trackerVars, aiVars, valVars,
                   laterVars>>

AnAnalyze(o) ==
    /\ an_outcome = NoOutcome
    /\ an_outcome' = o
    /\ an_metrics' = analyze_bucket_sample(o)
    /\ UNCHANGED <<adsVars, gateVars, procVars, trackerVars, aiVars, valVars,
                   laterVars>>

-----------------------------------------------------------------------------
(* The segment store of segmented mode.  The processor keeps it in           *)
(* self.stream_buffer, whose class is not part of the source at hand: the    *)
(* store is modelled from its contract in the specification, section 4.2.    *)

segment_duration == 2
window_seconds == 30
capacity == window_seconds \div segment_duration

\* the 20% / 80% split around the moment of detection, in percent
pre_percent == 20
post_percent == 80

Chunk(ts, path) == [timestamp |-> ts, duration |-> segment_duration, path |-> path]

\* addSegment: append, and evict the oldest chunk with its file when over
\* capacity
addSegmentUnbounded(segs, stored, chunk) ==
    [segments |-> Append(segs, chunk), files |-> stored \cup {chunk.path}]
addSegment(segs, stored, chunk) ==
    LET all == Append(segs, chunk)
        kept == stored \cup {chunk.path}
    IN  IF Len(all) > capacity
        THEN [segments |-> Tail(all), files |-> kept \ {Head(all).path}]
        ELSE [segments |-> all, files |-> kept]

\* the bounds of the window, in hundredths of a second
WindowLow(centerTime, totalDuration, pre) == centerTime * 100 - pre * totalDuration
WindowHigh(centerTime, totalDuration, post) == centerTime * 100 + post * totalDuration

\* [timestamp, timestamp + duration) meets [lo, hi]
MeetsOpenEnd(chunk, lo, hi) ==
    chunk.timestamp * 100 < hi /\ (chunk.timestamp + chunk.duration) * 100 > lo
Meets(chunk, lo, hi) ==
    chunk.timestamp * 100 <= hi /\ (chunk.timestamp + chunk.duration) * 100 > lo

\* segments.sort(key=lambda x: x['timestamp']): a stable insertion sort
RECURSIVE InsertByTimestamp(_, _)
InsertByTimestamp(sorted, chunk) ==
    IF sorted = <<>> THEN <<chunk>>
    ELSE IF sorted[Len(sorted)].timestamp <= chunk.timestamp
         THEN Append(sorted, chunk)
         ELSE Append(InsertByTimestamp(SubSeq(sorted, 1, Len(sorted) - 1), chunk),
                     sorted[Len(sorted)])
RECURSIVE SortByTimestamp(_)
SortByTimestamp(segs) ==
    IF segs = <<>> THEN <<>>
    ELSE InsertByTimestamp(SortByTimestamp(SubSeq(segs, 1, Len(segs) - 1)),
                           segs[Len(segs)])

resolveWindow(segs, centerTime, totalDuration, pre, post) ==
    LET lo == WindowLow(centerTime, totalDuration, pre)
        hi == WindowHigh(centerTime, totalDuration, post)
        Covers(chunk) == Meets(chunk, lo, hi)
    IN  SortByTimestamp(SelectSeq(segs, Covers))

\* the moments of detection and the clip lengths asked for
Centers == {Epoch, Epoch + Lead}
Totals == {20, 10}

NoWindow == [asked |-> FALSE, centerTime |-> 0, totalDuration |-> 0, chunks |-> <<>>]

StoreInit ==
    /\ segments = <<>>
    /\ seg_files = {}
    /\ seg_added = 0
    /\ seg_gaps = 0
    /\ seg_window = NoWindow

\* the capture loop adds the next segment; gap is the time lost before it
StoreAdd(gap) ==
    /\ seg_added < MaxAdds
    /\ gap > 0 => seg_gaps < MaxGaps
    /\ seg_window = NoWindow
    /\ LET ts == IF segments = <<>> THEN Epoch - Lead
                 ELSE segments[Len(segments)].timestamp + segment_duration + gap
           after == addSegment(segments, seg_files, Chunk(ts, seg_added + 1))
       IN  /\ segments' = after.segments
           /\ seg_files' = after.files
    /\ seg_added' = seg_added + 1
    /\ seg_gaps' = IF gap > 0 THEN seg_gaps + 1 ELSE seg_gaps
    /\ UNCHANGED <<seg_window, adsVars, gateVars, procVars, trackerVars, aiVars,
                   valVars, analyzerVars, gatedVars, callVars>>

\* the clip assembler asks for the window around a detection
StoreResolve(centerTime, totalDuration) ==
    /\ seg_window = NoWindow
    /\ seg_window' = [asked |-> TRUE, centerTime |-> centerTime,
                      totalDuration |-> totalDuration,
                      chunks |-> resolveWindow(segments, centerTime, totalDuration,
                                               pre_percent, post_percent)]
    /\ UNCHANGED <<segments, seg_files, seg_added, seg_gaps, adsVars, gateVars,
                   procVars, trackerVars, aiVars, valVars, analyzerVars, gatedVars, callVars>>

\* the assembler is done with the window
StoreRelease ==
    /\ seg_window # NoWindow
    /\ seg_window' = NoWindow
    /\ UNCHANGED <<segments, seg_files, seg_added, seg_gaps, adsVars, gateVars,
                   procVars, trackerVars, aiVars, valVars, analyzerVars, gatedVars, callVars>>

OtherLibInit == AiInit /\ ValInit /\ AnalyzerInit /\ StoreInit /\ GatedInit /\ CallInit
LibInit == TrackerInit /\ OtherLibInit

-----------------------------------------------------------------------------
(* Specifications *)

\* has_ads called on its own, on every text built from the fragments
InitAds == AdsInit /\ GateInit /\ max_retries = 0 /\ ProcInit /\ use_adaptive_detection /\ clip_length = 2 /\ LibInit
NextAds ==
    \/ \E f \in Fragments : AdsAppend(f)
    \/ AdsPassNone
    \/ AdsCall
SpecAds == InitAds /\ [][NextAds]_vars

\* one call of get_clean_twitch_url
InitGate == AdsInit /\ GateInit /\ ProcInit /\ use_adaptive_detection /\ clip_length = 2 /\ LibInit
NextGate ==
    \/ GkCall
    \/ GkWhile
    \/ \E o \in SubprocessOutcomes : GkResolve(o)
    \/ \E o \in FetchOutcomes : GkFetch(o)
    \/ GkScan
SpecGate == InitGate /\ [][NextGate]_vars

\* the capture loop of one session, with stop_processing at any moment
InitCapture == AdsInit /\ GateInit /\ max_retries = 0 /\ ProcInit /\ LibInit
NextCapture ==
    \/ StartProcessing(clip_length, 1)
    \/ StopFlag
    \/ StopCleanup
    \/ StopRelease
    \/ Tick
    \/ \E s \in Sessions : CapTop(s, MaxCaptures)
    \/ \E s \in Sessions : CapStart(s)
    \/ \E s \in Sessions : \E url \in BOOLEAN : CapBegin(s, url)
    \/ \E s \in Sessions : \E o \in {"ok", "no_file"} : CapEnd(s, o)
    \/ \E s \in Sessions : CapCleanup(s)
SpecCapture == InitCapture /\ [][NextCapture]_vars

\* the analysis loop of one session next to its capture loop
InitAnalysis == AdsInit /\ GateInit /\ max_retries = 0 /\ ProcInit /\ LibInit
NextAnalysis ==
    \/ StartProcessing(clip_length, 1)
    \/ StopFlag
    \/ StopCleanup
    \/ StopRelease
    \/ Tick
    \/ TickLong
    \/ \E s \in Sessions : CapTop(s, FewCaptures)
    \/ \E s \in Sessions : CapStart(s)
    \/ \E s \in Sessions : CapBegin(s, TRUE)
    \/ \E s \in Sessions : CapEnd(s, "ok")
    \/ \E s \in Sessions : CapCleanup(s)
    \/ \E s \in Sessions : AnaTop(s, MaxFrames)
    \/ \E s \in Sessions : AnaInfo(s)
    \/ \E s \in Sessions : \E m \in {"default", "audio"} : AnaAnalyze(s, m)
    \/ \E s \in Sessions : AnaGate(s)
    \/ \E s \in Sessions : \E written \in BOOLEAN : AnaClipBegin(s, written)
    \/ \E s \in Sessions : \E copy_ok \in BOOLEAN : AnaClip(s, copy_ok)
SpecAnalysis == InitAnalysis /\ [][NextAnalysis]_vars

\* the three loops of one session, stop_processing and the segmented
\* assembler
InitProc ==
    AdsInit /\ GateInit /\ max_retries = 0 /\ ProcInit /\ clip_length = 2 /\ LibInit
NextProc ==
    \/ StartProcessing(clip_length, 1)
    \/ StopFlag
    \/ StopCleanup
    \/ StopRelease
    \/ CreateSegmentedClip
    \/ TickLong
    \/ \E s \in Sessions : CapTop(s, ProcCaptures)
    \/ \E s \in Sessions : CapStart(s)
    \/ \E s \in Sessions : \E url \in BOOLEAN : CapBegin(s, url)
    \/ \E s \in Sessions : \E o \in {"ok", "no_file"} : CapEnd(s, o)
    \/ \E s \in Sessions : CapCleanup(s)
    \/ \E s \in Sessions : AnaTop(s, ProcFrames)
    \/ \E s \in Sessions : AnaInfo(s)
    \/ \E s \in Sessions : AnaAnalyze(s, "audio")
    \/ \E s \in Sessions : AnaGate(s)
    \/ \E s \in Sessions : \E written \in BOOLEAN : AnaClipBegin(s, written)
    \/ \E s \in Sessions : \E copy_ok \in BOOLEAN : AnaClip(s, copy_ok)
    \/ \E s \in Sessions : MetTop(s)
    \/ \E s \in Sessions : MetReport(s)
SpecProc == InitProc /\ [][NextProc]_vars

\* a step of the capture, analysis and metrics thread of a session
CaptureThread ==
    \E s \in Sessions :
        \/ CapTop(s, FairCaptures)
        \/ CapStart(s)
        \/ \E url \in BOOLEAN : CapBegin(s, url)
        \/ \E o \in {"ok", "no_file"} : CapEnd(s, o)
        \/ CapCleanup(s)
AnalysisThread ==
    \E s \in Sessions :
        \/ AnaTop(s, ProcFrames)
        \/ AnaInfo(s)
        \/ AnaAnalyze(s, "audio")
        \/ AnaGate(s)
        \/ \E written \in BOOLEAN : AnaClipBegin(s, written)
        \/ \E copy_ok \in BOOLEAN : AnaClip(s, copy_ok)
MetricsThread ==
    \E s \in Sessions : MetTop(s) \/ MetReport(s)

\* the three loops of one session and stop_processing, the threads being
\* scheduled fairly and the programs they call coming back
NextFair ==
    \/ StartProcessing(clip_length, 1)
    \/ StopFlag
    \/ StopCleanup
    \/ StopRelease
    \/ TickLong
    \/ \E s \in Sessions : CapTop(s, FairCaptures)
    \/ \E s \in Sessions : CapStart(s)
    \/ \E s \in Sessions : \E url \in BOOLEAN : CapBegin(s, url)
    \/ \E s \in Sessions : \E o \in {"ok", "no_file"} : CapEnd(s, o)
    \/ \E s \in Sessions : CapCleanup(s)
    \/ \E s \in Sessions : AnaTop(s, ProcFrames)
    \/ \E s \in Sessions : AnaInfo(s)
    \/ \E s \in Sessions : AnaAnalyze(s, "audio")
    \/ \E s \in Sessions : AnaGate(s)
    \/ \E s \in Sessions : \E written \in BOOLEAN : AnaClipBegin(s, written)
    \/ \E s \in Sessions : \E copy_ok \in BOOLEAN : AnaClip(s, copy_ok)
    \/ \E s \in Sessions : MetTop(s)
    \/ \E s \in Sessions : MetReport(s)
SpecProcFair ==
    /\ InitProc
    /\ [][NextFair]_vars
    /\ WF_vars(CaptureThread)
    /\ WF_vars(AnalysisThread)
    /\ WF_vars(MetricsThread)

\* a BaselineTracker called on its own
InitTracker == AdsInit /\ GateInit /\ max_retries = 0 /\ ProcInit
               /\ use_adaptive_detection /\ clip_length = 2 /\ LibInit
NextTracker ==
    \/ TrStartCalibration
    \/ \E x \in TrackerSamples : \E stats_ok \in BOOLEAN : TrAddMetrics(x, stats_ok)
    \/ \E x \in TrackerInputs : TrCheckAnomaly(x)
    \/ TrTick
SpecTracker == InitTracker /\ [][NextTracker]_vars

\* an AIDetector asked again and again whether to trigger
InitAi == AdsInit /\ GateInit /\ max_retries = 0 /\ ProcInit
          /\ use_adaptive_detection /\ clip_length = 2 /\ LibInit
NextAi == \E p \in Probabilities : AiCall(p)
SpecAi == InitAi /\ [][NextAi]_vars

\* validate_url_continuously called again and again
InitValidate == AdsInit /\ GateInit /\ max_retries = 0 /\ ProcInit
                /\ use_adaptive_detection /\ clip_length = 2 /\ LibInit
NextValidate ==
    \/ \E duration_sec \in 1..MaxDuration : ValCall(duration_sec)
    \/ ValWhile
    \/ \E o \in SubprocessOutcomes : ValResolve(o)
    \/ \E o \in FetchOutcomes : \E slept \in 1..2 : ValFetch(o, slept)
SpecValidate == InitValidate /\ [][NextValidate]_vars

\* the capture loop of one session with every way a recording can end
InitBuckets == AdsInit /\ GateInit /\ max_retries = 0 /\ ProcInit /\ LibInit
NextBuckets ==
    \/ StartProcessing(clip_length, 1)
    \/ Tick
    \/ \E s \in Sessions : CapTop(s, BucketCaptures)
    \/ \E s \in Sessions : CapStart(s)
    \/ \E s \in Sessions : \E url \in BOOLEAN : CapBegin(s, url)
    \/ \E s \in Sessions : \E o \in {"ok", "small_file", "no_file"} : CapEnd(s, o)
    \/ \E s \in Sessions : CapCleanup(s)
SpecBuckets == InitBuckets /\ [][NextBuckets]_vars

\* the analyzer called on bucket after bucket
InitAnalyzer == AdsInit /\ GateInit /\ max_retries = 0 /\ ProcInit
                /\ use_adaptive_detection /\ clip_length = 2 /\ LibInit
NextAnalyzer ==
    \/ \E o \in AnalyzerOutcomes : AnAnalyze(o)
    \/ AnForget
SpecAnalyzer == InitAnalyzer /\ [][NextAnalyzer]_vars

\* a BaselineTracker whose histories fill up
InitHistory == AdsInit /\ GateInit /\ max_retries = 0 /\ ProcInit
               /\ use_adaptive_detection /\ clip_length = 2
               /\ HistoryInit /\ OtherLibInit
NextHistory ==
    \/ \E x \in TrackerSamples : TrAddMetricsPaced(x)
    \/ TrSecond
SpecHistory == InitHistory /\ [][NextHistory]_vars

\* the segment store, filled by captures and asked for windows
InitStore == AdsInit /\ GateInit /\ max_retries = 0 /\ ProcInit
             /\ use_adaptive_detection /\ clip_length = 2 /\ LibInit
NextStore ==
    \/ \E gap \in {0, 1} : StoreAdd(gap)
    \/ \E c \in Centers, t \in Totals : StoreResolve(c, t)
    \/ StoreRelease
SpecStore == InitStore /\ [][NextStore]_vars

\* captures of a processor with a gatekeeper and the URL of a twitch channel
InitGated == AdsInit /\ GateInit /\ max_retries = MaxRetries /\ ProcInit
             /\ use_adaptive_detection /\ clip_length = 2 /\ LibInit
NextGated ==
    \/ StartProcessing(clip_length, 1)
    \/ \E s \in Sessions : CapTop(s, FewCaptures)
    \/ \E s \in Sessions : CapStart(s)
    \/ \E s \in Sessions : CapAcquire(s)
    \/ GkWhile
    \/ \E o \in GatedResolves : GkResolve(o)
    \/ \E o \in GatedFetches : GkFetch(o)
    \/ GkScan
    \/ \E s \in Sessions : \E o \in GatedResolves : CapBeginGated(s, o)
    \/ GkReturn
    \/ \E s \in Sessions : \E o \in {"ok", "no_file"} : CapEnd(s, o)
    \/ \E s \in Sessions : CapCleanup(s)
SpecGated == InitGated /\ [][NextGated]_vars

\* the capture loops of a processor that is stopped and started again
InitRestart == AdsInit /\ GateInit /\ max_retries = 0 /\ ProcInit
               /\ use_adaptive_detection /\ clip_length = 2 /\ LibInit
NextRestart ==
    \/ StartProcessing(clip_length, 2)
    \/ StopFlag
    \/ StopCleanup
    \/ StopRelease
    \/ \E s \in Sessions : CapTop(s, FewCaptures)
    \/ \E s \in Sessions : CapTopNoStore(s, MaxCaptures)
    \/ \E s \in Sessions : CapStart(s)
    \/ \E s \in Sessions : \E url \in BOOLEAN : CapBegin(s, url)
    \/ \E s \in Sessions : \E o \in {"ok", "no_file"} : CapEnd(s, o)
    \/ \E s \in Sessions : CapCleanup(s)
SpecRestart == InitRestart /\ [][NextRestart]_vars

\* a processor started with a clip length of the caller's choice
InitCooldown == AdsInit /\ GateInit /\ max_retries = 0 /\ ProcInit /\ LibInit
NextCooldown ==
    \/ \E cl \in ClipLengths : StartProcessing(cl, 1)
    \/ Tick
    \/ \E s \in Sessions : CapTop(s, FewCaptures)
    \/ \E s \in Sessions : CapStart(s)
    \/ \E s \in Sessions : \E url \in BOOLEAN : CapBegin(s, url)
    \/ \E s \in Sessions : \E o \in {"ok", "no_file"} : CapEnd(s, o)
    \/ \E s \in Sessions : CapCleanup(s)
SpecCooldown == InitCooldown /\ [][NextCooldown]_vars

\* a processor whose start_processing is called at any time
InitCalls == AdsInit /\ GateInit /\ max_retries = 0 /\ ProcInit
             /\ use_adaptive_detection /\ LibInit
NextCalls ==
    \/ \E cl \in ClipLengths : StartProcessingCall(cl, 2)
    \/ Tick
    \/ \E s \in Sessions : CapTop(s, FairCaptures)
    \/ \E s \in Sessions : CapStart(s)
    \/ \E s \in Sessions : \E url \in BOOLEAN : CapBegin(s, url)
    \/ \E s \in Sessions : \E o \in {"ok", "no_file"} : CapEnd(s, o)
    \/ \E s \in Sessions : CapCleanup(s)
SpecCalls == InitCalls /\ [][NextCalls]_vars

\* the analysis loop publishing snapshots of two kinds and the metrics loop
\* reporting them
InitMetrics == AdsInit /\ GateInit /\ max_retries = 0 /\ ProcInit
               /\ use_adaptive_detection /\ clip_length = 2 /\ LibInit
NextMetrics ==
    \/ StartProcessing(clip_length, 1)
    \/ TickLong
    \/ \E s \in Sessions : CapTop(s, FairCaptures)
    \/ \E s \in Sessions : CapStart(s)
    \/ \E s \in Sessions : CapBegin(s, TRUE)
    \/ \E s \in Sessions : AnaTop(s, MaxFrames)
    \/ \E s \in Sessions : AnaInfo(s)
    \/ \E s \in Sessions : \E m \in {"audio", "motion"} : AnaAnalyze(s, m)
    \/ \E s \in Sessions : AnaGate(s)
    \/ \E s \in Sessions : \E written \in BOOLEAN : AnaClipBegin(s, written)
    \/ \E s \in Sessions : \E copy_ok \in BOOLEAN : AnaClip(s, copy_ok)
    \/ \E s \in Sessions : MetTop(s)
    \/ \E s \in Sessions : MetReport(s)
SpecMetrics == InitMetrics /\ [][NextMetrics]_vars

\* a session whose captures fail until the stream is taken to have ended,
\* stopped and followed by another session
InitSessions == AdsInit /\ GateInit /\ max_retries = 0 /\ ProcInit
                /\ use_adaptive_detection /\ clip_length = 2 /\ LibInit
NextSessions ==
    \/ StartProcessing(clip_length, 2)
    \/ StopFlag
    \/ StopCleanup
    \/ StopRelease
    \/ \E s \in Sessions : CapTop(s, MaxCaptures)
    \/ \E s \in Sessions : CapStart(s)
    \/ \E s \in Sessions : CapBegin(s, FALSE)
SpecSessions == InitSessions /\ [][NextSessions]_vars

\* a Calibrated BaselineTracker that is calibrated again, on loud samples
InitRecalibrate == AdsInit /\ GateInit /\ max_retries = 0 /\ ProcInit
                   /\ use_adaptive_detection /\ clip_length = 2
                   /\ CalibratedInit /\ OtherLibInit
NextRecalibrate ==
    \/ TrRecalibrate
    \/ TrAddLoud
    \/ \E x \in TrackerInputs : TrCheckAnomaly(x)
    \/ TrTick
SpecRecalibrate == InitRecalibrate /\ [][NextRecalibrate]_vars

-----------------------------------------------------------------------------
(* Properties of the ad gatekeeper *)

\* An attempt of the log that resolved a URL, fetched a non-empty playlist
\* and whose playlist holds no marker
CleanAttempt(e) ==
    /\ e.url.tag = "str"
    /\ e.fetched
    /\ ~e.playlist.isNone
    /\ e.playlist.chars # <<>>
    /\ ~ContainsMarker(e.playlist.chars)

\* C1: one call of get_clean_twitch_url makes at most max_retries resolution
\* attempts; when no attempt resolved, fetched and scanned clean, it returns
\* None; with max_retries = 0 it makes no attempt and returns None.
C1_AtMostMaxRetries ==
    /\ gk_attempts <= max_retries
    /\ Len(gk_log) = gk_attempts
    /\ (gk_pc = "done" /\ \A i \in 1..Len(gk_log) : ~CleanAttempt(gk_log[i]))
          => gk_result = RetNone
    /\ (gk_pc = "done" /\ max_retries = 0)
          => (gk_attempts = 0 /\ gk_result = RetNone)

\* a call that used up all its attempts, one of which raised and one of which
\* was flagged as containing ads
C1_Witness ==
    /\ gk_pc = "done"
    /\ max_retries >= 2
    /\ gk_attempts = max_retries
    /\ gk_result = RetNone
    /\ \E i \in 1..Len(gk_log) : gk_log[i].url.tag = "raise"
    /\ \E i \in 1..Len(gk_log) :
          gk_log[i].fetched /\ ~gk_log[i].playlist.isNone
          /\ ContainsMarker(gk_log[i].playlist.chars)

\* C2: a URL is returned only when the last attempt resolved that URL,
\* fetched a non-empty playlist and found no marker in it; the call returns
\* at the first such attempt (no attempt follows a clean one), and the URL of
\* an earlier attempt is never the one returned.
C2_ReturnsOnlyCleanUrl ==
    /\ \A i \in 1..(Len(gk_log) - 1) : ~CleanAttempt(gk_log[i])
    /\ (gk_pc = "done" /\ gk_result.tag = "str")
          => /\ Len(gk_log) >= 1
             /\ CleanAttempt(gk_log[Len(gk_log)])
             /\ gk_result = gk_log[Len(gk_log)].url
    /\ (gk_pc = "done" /\ Len(gk_log) >= 1 /\ CleanAttempt(gk_log[Len(gk_log)]))
          => gk_result = gk_log[Len(gk_log)].url

\* a URL returned after an earlier attempt had resolved another URL and failed
C2_Witness ==
    /\ gk_pc = "done"
    /\ gk_result.tag = "str"
    /\ Len(gk_log) >= 2
    /\ gk_log[1].url.tag = "str"
    /\ gk_log[1].url # gk_result

C4_InvalidPlaylistHasAds ==
    (has_ads_result # "unset"
        /\ (m3u8_text.isNone \/ m3u8_text.chars = <<>> \/ ~IsPlaylist(m3u8_text)))
       => has_ads_result = "true"

-----------------------------------------------------------------------------
(* Properties of the capture loop *)

\* C5: in every run of consecutive capture failures in which
\* consecutive_failures has reached max_consecutive_failures, the stream is
\* marked ended and exactly one stream-ended notification has been sent in
\* that run (looked at while nobody has called stop_processing)
C5_OneNotificationPerRun ==
    (stop_pc = "idle" /\ consecutive_failures >= max_consecutive_failures)
        => (stream_ended /\ run_posts = 1)

\* C6: stream_ended is false after a capture iteration that succeeded
C6_SuccessClearsStreamEnded ==
    \A s \in Sessions :
        (cap_pc[s] = "cleanup" /\ last_event = "success") => ~stream_ended

\* s's capture has just succeeded
CaptureSucceeds(s) == cap_pc[s] = "recording" /\ cap_pc'[s] = "cleanup"
\* s's capture has just failed, by returning False or by raising
CaptureFails(s) ==
    /\ cap_pc[s] \in {"start", "capture", "recording", "cleanup"}
    /\ cap_pc'[s] = "top"
    /\ ~(cap_pc[s] = "cleanup" /\ ~stream_bucket.isNone)

\* C7: a successful capture sets consecutive_failures to 0 and records
\* last_successful_capture, a failed one adds exactly 1 and leaves
\* last_successful_capture alone, and consecutive_failures is the number of
\* failed captures since the last success or since start
C7_FailureCounter ==
    [][ /\ consecutive_failures' = failed_captures'
        /\ \A s \in Sessions :
             /\ CaptureSucceeds(s) =>
                   consecutive_failures' = 0 /\ last_successful_capture' = now
             /\ CaptureFails(s) =>
                   /\ consecutive_failures' = consecutive_failures + 1
                   /\ last_successful_capture' = last_successful_capture ]_vars
\* a success later than the start, then two failures
C7_Witness ==
    /\ consecutive_failures = 2
    /\ last_event = "failure"
    /\ last_successful_capture > start_time

-----------------------------------------------------------------------------
(* Properties of the analysis loop *)

\* C8: the trigger that last reached the cooldown gate was accepted if and
\* only if no trigger had been accepted before it or at least clip_cooldown
\* seconds had passed since the last accepted one; rejected triggers do not
\* count, so two accepted triggers are at least clip_cooldown apart
C8_CooldownGate ==
    last_gate.time # NoneTime =>
        /\ last_gate.accepted <=>
              \/ last_gate.previous = NoneTime
              \/ last_gate.time - last_gate.previous >= clip_cooldown
        /\ (last_gate.accepted /\ last_gate.previous # NoneTime) =>
              last_gate.time - last_gate.previous >= clip_cooldown
\* a trigger accepted exactly clip_cooldown after the accepted one before
\* it, a rejected trigger having come in between
C8_Witness ==
    /\ last_gate.accepted
    /\ last_gate.previous # NoneTime
    /\ last_gate.time - last_gate.previous = clip_cooldown
    /\ Len(metrics_queue) >= 2
    /\ \E s \in Sessions : ana_pc[s] = "clip"

-----------------------------------------------------------------------------
(* Properties of the three loops together *)

\* every loop of every started session has ended
AllLoopsDone ==
    \A s \in 1..sessions :
        cap_pc[s] = "done" /\ ana_pc[s] = "done" /\ met_pc[s] = "done"

\* C9: once stop_processing has cleared is_running no loop starts a further
\* iteration, and under fair scheduling all three loops end
C9_LoopsExitAfterStop ==
    /\ [][ ~is_running =>
             \A s \in Sessions :
                /\ cap_pc[s] = "top" => cap_pc'[s] \in {"top", "done"}
                /\ ana_pc[s] = "top" => ana_pc'[s] \in {"top", "done"}
                /\ met_pc[s] = "top" => met_pc'[s] \in {"top", "done"} ]_vars
    /\ (stop_pc # "idle") ~> AllLoopsDone
\* stop_processing has run to its end during a recording that the analysis
\* loop was sampling, and the loops are over
C9_Witness ==
    /\ stop_pc = "done"
    /\ stopped_by = "stop_processing"
    /\ sessions = 1
    /\ AllLoopsDone
    /\ frames_processed >= 1
    /\ last_event = "exception"

\* C10: is_running goes from true to false only in stop_processing or in the
\* segmented assembler; no step of a loop changes it, and a loop ends only
\* at its top, having found is_running false
C10_OnlyStopEndsLoops ==
    [][ /\ (is_running /\ ~is_running') =>
              \/ (stop_pc = "idle" /\ stop_pc' = "flag")
              \/ (stopped_by = "nothing" /\ stopped_by' = "assembler")
        /\ \A s \in Sessions :
              /\ (cap_pc'[s] # cap_pc[s] \/ ana_pc'[s] # ana_pc[s]
                    \/ met_pc'[s] # met_pc[s]) /\ sessions' = sessions
                   => is_running' = is_running
              /\ (cap_pc'[s] = "done" /\ cap_pc[s] # "done")
                   => (cap_pc[s] = "top" /\ ~is_running)
              /\ (ana_pc'[s] = "done" /\ ana_pc[s] # "done")
                   => (ana_pc[s] = "top" /\ ~is_running)
              /\ (met_pc'[s] = "done" /\ met_pc[s] # "done")
                   => (met_pc[s] = "top" /\ ~is_running) ]_vars
\* the capture loop is recording again after a failed capture, the analysis
\* loop has come through the NameError of its earlier cycles and a failed
\* clip copy, and the processor is running
C10_Witness ==
    /\ is_running
    /\ last_event = "failure"
    /\ consecutive_failures = 1
    /\ \E s \in Sessions : cap_pc[s] = "recording" /\ ana_pc[s] = "top"
    /\ last_gate.accepted
    /\ last_clip_time = last_gate.time
    /\ clips_generated = 0

-----------------------------------------------------------------------------
(* Properties of the analysis cycle and of the threads sharing the store *)

\* C11: every analysis cycle that analyses a bucket puts exactly one
\* metrics snapshot on the queue before it ends, trigger or no trigger,
\* calibrated or not: between cycles, with nothing taking snapshots off the
\* queue, the queue holds as many snapshots as samples were analysed.
C11_OneSnapshotPerCycle ==
    (\A s \in Sessions : ana_pc[s] \notin {"gate", "clip", "copying"})
        => Len(metrics_queue) = frames_processed

\* C12: cleanup_old_buckets never deletes the file save_bucket_as_clip is
\* copying: a step of cleanup_old_buckets leaves on disk every file a copy
\* in progress is reading.
C12_CleanupSparesCopiedFile ==
    [][(\E c \in Sessions : cap_pc[c] = "cleanup" /\ cap_pc'[c] = "top")
         => \A s \in Sessions :
               (ana_pc[s] = "copying" /\ ana_copy[s] \in files)
                   => ana_copy[s] \in files']_vars

-----------------------------------------------------------------------------
(* Properties of the baseline tracker *)

\* the calibration period had passed when the last call was made
PeriodElapsed ==
    /\ tr_last.before.calibration_start # NoneTime
    /\ tr_last.time - tr_last.before.calibration_start >= calibration_seconds

Baselines(tr) == <<tr.audio_baseline, tr.motion_baseline, tr.scene_baseline>>
Histories(tr) == <<tr.audio_levels, tr.motion_levels, tr.scene_changes>>

\* C14: an add_metrics call on a Calibrating tracker finalizes the
\* calibration exactly when the period has elapsed and, the new sample
\* appended, at least 10 samples are held; otherwise the tracker stays
\* Calibrating with its baselines unchanged (so that a finalization put off
\* for want of samples happens at the first later call that reaches 10).
C14_FinalizeWhenDue ==
    (tr_last.op = "add_metrics" /\ tr_last.before.is_calibrating) =>
        /\ Len(tracker.audio_levels) = Len(tr_last.before.audio_levels) + 1
        /\ tracker.is_calibrated
             <=> (PeriodElapsed /\ Len(tracker.audio_levels) >= 10)
        /\ tracker.is_calibrating <=> ~tracker.is_calibrated
        /\ ~tracker.is_calibrated
             => Baselines(tracker) = Baselines(tr_last.before)

\* the period elapsed two periods ago, and the tenth sample finalizes
C14_Witness ==
    /\ tr_last.op = "add_metrics"
    /\ tr_last.before.is_calibrating
    /\ Len(tr_last.before.audio_levels) = 9
    /\ tr_last.time - tr_last.before.calibration_start = 2 * calibration_seconds
    /\ tracker.is_calibrated
    /\ tracker.audio_baseline.mean = <<530, 10>>

\* C15: check_anomaly reports no anomaly whenever the tracker is not
\* Calibrated: before a calibration starts, during one, and after
\* start_calibration was called again.
C15_NoAnomalyUnlessCalibrated ==
    (tr_result.asked /\ ~tracker.is_calibrated) => tr_result.anomaly = NoAnomaly

\* a tracker that was Calibrated and is calibrating again is asked about
\* levels far above its baselines
C15_Witness ==
    /\ tr_result.asked
    /\ tr_result.x = LoudSample
    /\ tr_result.anomaly = NoAnomaly
    /\ tracker.is_calibrating
    /\ Len(tracker.audio_levels) >= 10
    /\ tracker.audio_baseline = ComputedBaseline(tracker.audio_levels, audio_floor)
    /\ ZReaches(80, tracker.audio_baseline, audio_sensitivity)

\* C16: a Calibrated tracker reports an audio anomaly iff the audio z-score
\* is at least 2.5; failing that a motion anomaly iff the motion z-score is
\* at least 2.0; failing that a scene anomaly iff the scene z-score is at
\* least 1.5; failing that nothing.
C16_FirstChannelInOrder ==
    (tr_result.asked /\ tracker.is_calibrated) =>
        LET x == tr_result.x
            za == ZReaches(x[1], tracker.audio_baseline, <<25, 10>>)
            zm == ZReaches(x[2], tracker.motion_baseline, <<20, 10>>)
            zs == ZReaches(x[3], tracker.scene_baseline, <<15, 10>>)
        IN tr_result.anomaly.kind =
              IF za THEN "Audio Anomaly"
              ELSE IF zm THEN "Motion Anomaly"
              ELSE IF zs THEN "Scene Anomaly"
              ELSE "None"

\* motion is reported although the scene is anomalous too, the audio being
\* at its mean
C16_Witness ==
    /\ tr_result.asked
    /\ tracker.is_calibrated
    /\ tr_result.x = <<50, 60, 40>>
    /\ tr_result.anomaly.kind = "Motion Anomaly"
    /\ ZReaches(40, tracker.scene_baseline, scene_sensitivity)
    /\ tracker.audio_baseline.mean = <<50, 1>>

\* min(100, round((z / sensitivity) * 100)), round taking halves upwards
RoundedConfidence(value, base, sens) ==
    LET d == value * base.mean[2] - base.mean[1]
        r == <<d * d * base.var[2] * sens[2] * sens[2],
               base.mean[2] * base.mean[2] * base.var[1] * sens[1] * sens[1]>>
        AtLeast(c) == RatGeq(r, <<(2 * c - 1) * (2 * c - 1), 40000>>)
    IN IF AtLeast(100) THEN 100
       ELSE CHOOSE c \in 0..99 : (c = 0 \/ AtLeast(c)) /\ ~AtLeast(c + 1)

\* C17: the confidence reported with an anomaly is
\* min(100, round(z / sensitivity * 100)); with an audio baseline of mean 50
\* and std 10, audio 80 is an audio anomaly of confidence 100, and audio 50
\* with motion and scene below their thresholds is no anomaly.
C17_Confidence ==
    (tr_result.asked /\ tracker.is_calibrated) =>
        LET x == tr_result.x
            a == tr_result.anomaly
        IN /\ a.kind = "Audio Anomaly"
                => a.confidence = RoundedConfidence(x[1], tracker.audio_baseline,
                                                    <<25, 10>>)
           /\ a.kind = "Motion Anomaly"
                => a.confidence = RoundedConfidence(x[2], tracker.motion_baseline,
                                                    <<20, 10>>)
           /\ a.kind = "Scene Anomaly"
                => a.confidence = RoundedConfidence(x[3], tracker.scene_baseline,
                                                    <<15, 10>>)
           /\ tracker.audio_baseline = [mean |-> <<50, 1>>, var |-> <<100, 1>>]
                => /\ x[1] = 80
                      => a = [kind |-> "Audio Anomaly", confidence |-> 100]
                   /\ (/\ x[1] = 50
                       /\ ~ZReaches(x[2], tracker.motion_baseline, <<20, 10>>)
                       /\ ~ZReaches(x[3], tracker.scene_baseline, <<15, 10>>))
                      => a = NoAnomaly

\* the example of the claim: mean 50, std 10, audio 80
C17_Witness ==
    /\ tr_result.asked
    /\ tracker.is_calibrated
    /\ tracker.audio_baseline = [mean |-> <<50, 1>>, var |-> <<100, 1>>]
    /\ tr_result.x[1] = 80
    /\ tr_result.anomaly = [kind |-> "Audio Anomaly", confidence |-> 100]

\* C18: on a Calibrated tracker add_metrics and check_anomaly change neither
\* the baselines nor the sample histories (nor the state); only
\* start_calibration reopens them.
C18_FrozenOnceCalibrated ==
    (tr_last.op \in {"add_metrics", "check_anomaly"} /\ tr_last.before.is_calibrated)
        => /\ Baselines(tracker) = Baselines(tr_last.before)
           /\ Histories(tracker) = Histories(tr_last.before)
           /\ tracker.is_calibrated /\ ~tracker.is_calibrating

\* a loud sample is given to a Calibrated tracker a period after its
\* calibration
C18_Witness ==
    /\ tr_last.op = "add_metrics"
    /\ tr_last.before.is_calibrated
    /\ tr_last.x = LoudSample
    /\ tr_last.time - tr_last.before.calibration_start >= 2 * calibration_seconds
    /\ tracker.audio_levels = [i \in 1..10 |-> 50]

-----------------------------------------------------------------------------
(* Properties of the AI detector and of the continuous validation *)

\* C19: _should_trigger_clip returns true exactly when this call and the
\* K - 1 calls before it all had a probability of at least the threshold
\* (K = consecutive_triggers = 2, threshold 0.80): the first K - 1 calls
\* return false, and the history never holds more than K outcomes.
C19_ConsecutiveTriggers ==
    /\ Len(trigger_history) <= 2
    /\ ai_log # <<>> =>
         (ai_result <=> /\ Len(ai_log) >= 2
                        /\ \A i \in (Len(ai_log) - 1)..Len(ai_log) : ai_log[i] >= 80)

\* a call at the threshold after one above it, a low one before them
C19_Witness ==
    /\ Len(ai_log) = 4
    /\ SubSeq(ai_log, 2, 4) = <<79, 81, 80>>
    /\ ai_result
    /\ trigger_history = <<TRUE, TRUE>>

\* C20: validate_url_continuously returns False at the first failing check,
\* without further checks, and True only if every check passed; a failure
\* of the resolver call never surfaces as anything but the False result.
C20_FalseAtFirstFailure ==
    (val_pc = "idle" /\ val_result # "none") =>
        /\ val_result \in {"True", "False"}
        /\ val_result = "True" => \A i \in 1..Len(val_log) : val_log[i] = "pass"
        /\ val_result = "False"
             => /\ val_log # <<>>
                /\ val_log[Len(val_log)] # "pass"
                /\ \A i \in 1..(Len(val_log) - 1) : val_log[i] = "pass"

-----------------------------------------------------------------------------
(* Properties of the bucket store, the analyzer and the trigger rules *)

\* the bucket files the store holds on disk
BucketFiles == {f \in files : ~stream_bucket.isNone /\ f[1] = stream_bucket.dir}

\* C21: the store never holds more bucket files than a fixed capacity, runs
\* of failed captures included: a superseded bucket loses its file, so that
\* only the active bucket and at most the one just superseded exist.
C21_BucketFilesBounded == Cardinality(BucketFiles) <= 2

\* the analyzer failed: no report, or a report none of whose lines gives a
\* number
AnalyzerFailed(o) ==
    \/ o.kind \in AnalyzerFailures
    \/ /\ o.kind = "report"
       /\ \A i \in 1..Len(o.lines) : o.lines[i].kind \notin {"rms", "scene"}

\* C22: a failure of the analyzer (missing or too small file, failed
\* extraction, timeout, exception, unparseable report) never raises out of
\* _analyze_bucket_sample: the cycle gets metrics whose audio_level,
\* motion_level, scene_change and audio_db_change are all 0.
C22_FailureGivesZeroMetrics ==
    AnalyzerFailed(an_outcome) =>
        /\ ~an_metrics.raised
        /\ an_metrics.metrics.audio_level = 0
        /\ an_metrics.metrics.motion_level = 0
        /\ an_metrics.metrics.scene_change = 0
        /\ an_metrics.metrics.audio_db_change = 0

\* C23: no history of the tracker ever holds more than 1000 samples, the
\* three histories always have the same length, and a sample added to full
\* histories displaces the oldest one.
C23_HistoriesBounded ==
    /\ Len(tracker.audio_levels) <= 1000
    /\ Len(tracker.motion_levels) = Len(tracker.audio_levels)
    /\ Len(tracker.scene_changes) = Len(tracker.audio_levels)
    /\ (tr_last.op = "add_metrics" /\ tr_last.before.is_calibrating
        /\ Len(tr_last.before.audio_levels) = 1000)
         => /\ tracker.audio_levels
                 = Append(Tail(tr_last.before.audio_levels), tr_last.x[1])
            /\ tracker.motion_levels
                 = Append(Tail(tr_last.before.motion_levels), tr_last.x[2])
            /\ tracker.scene_changes
                 = Append(Tail(tr_last.before.scene_changes), tr_last.x[3])

\* a quiet sample has displaced the oldest, loud sample of full histories
C23_Witness ==
    /\ tr_last.op = "add_metrics"
    /\ Len(tr_last.before.audio_levels) = 1000
    /\ Len(tracker.audio_levels) = 1000
    /\ Head(tr_last.before.audio_levels) = 80
    /\ Head(tracker.audio_levels) = 50
    /\ tracker.audio_levels[1000] = 50

\* C24: the store never holds more than windowSeconds / segmentDuration = 15
\* chunks; a chunk added to a full store evicts the oldest chunk and its
\* file, and only that one: after 16 adds the store holds 15 chunks and the
\* file of the first segment is gone.
C24_StoreBounded ==
    /\ capacity = 15
    /\ Len(segments) <= capacity
    /\ seg_files = {segments[i].path : i \in 1..Len(segments)}
    /\ seg_added >= capacity => Len(segments) = capacity
    /\ \A i \in 1..Len(segments) :
          segments[i].path = seg_added - Len(segments) + i
    /\ seg_added = 16 => Len(segments) = 15 /\ 1 \notin seg_files

\* sixteen segments were added
C24_Witness ==
    /\ seg_added = 16
    /\ Len(segments) = 15
    /\ seg_files = 2..16

\* the chunks of the store that share a moment with the window asked for;
\* two intervals that meet have the later of their two starts in common
ChunksInWindow ==
    LET lo == seg_window.centerTime * 100 - 20 * seg_window.totalDuration
        hi == seg_window.centerTime * 100 + 80 * seg_window.totalDuration
    IN  {segments[i] : i \in {j \in 1..Len(segments) :
            \E t \in {lo, segments[j].timestamp * 100} :
                /\ lo <= t /\ t <= hi
                /\ segments[j].timestamp * 100 <= t
                /\ t < (segments[j].timestamp + segments[j].duration) * 100}}

\* C25: resolveWindow returns, in timestamp order, exactly the buffered chunks
\* whose interval [start, start + duration) shares a moment with
\* [centerTime - pre * totalDuration, centerTime + post * totalDuration].
C25_WindowIsExact ==
    seg_window.asked =>
        /\ {seg_window.chunks[i] : i \in 1..Len(seg_window.chunks)} = ChunksInWindow
        /\ Len(seg_window.chunks) = Cardinality(ChunksInWindow)
        /\ \A i \in 1..(Len(seg_window.chunks) - 1) :
              seg_window.chunks[i].timestamp < seg_window.chunks[i + 1].timestamp

\* detection at 100, a clip of 20 seconds: the window is [96, 116]; the chunk
\* that starts at 116 is part of it, the chunk that ends at 96 is not
C25_Witness ==
    /\ seg_window.asked
    /\ seg_window.centerTime = 100 /\ seg_window.totalDuration = 20
    /\ \E i \in 1..Len(segments) : segments[i].timestamp = 94
    /\ \E i \in 1..Len(seg_window.chunks) : seg_window.chunks[i].timestamp = 116
    /\ seg_window.chunks[1].timestamp = 96

\* C26: a cycle whose adaptive detection gives no reason (calibrating,
\* disabled, or no anomaly) evaluates the fixed rules in that same cycle, and
\* a reason they give is the trigger that goes to the cooldown gate.
C26_FixedRulesAsFallback ==
    [][\A s \in Sessions :
         (/\ ana_pc[s] = "analyze" /\ ana_pc'[s] # "analyze"
          /\ \/ ~(use_adaptive_detection /\ baseline_tracker'.is_calibrated)
             \/ check_anomaly(baseline_tracker', ana_metrics'[s]) = "None")
            => LET reason == check_highlight_triggers(ClassMetrics(ana_metrics'[s]))
               IN  /\ ana_trigger'[s] = reason
                   /\ reason # "None" => ana_pc'[s] = "gate"]_vars

\* C27: with a gatekeeper and the URL of a twitch channel, a bucket is
\* recorded only from the URL get_clean_twitch_url returned for that very
\* attempt, a URL whose playlist was fetched and found clean; when the
\* retries are exhausted the attempt starts no recording, uses no other URL
\* and counts as one capture failure.
C27_OnlyVettedUrl ==
    [][\A s \in Sessions :
         (cap_pc[s] = "capture" /\ cap_pc'[s] # "capture")
            => /\ gk_pc = "done"
               /\ IF gk_result.tag = "str"
                  THEN /\ CleanAttempt(gk_log[Len(gk_log)])
                       /\ gk_log[Len(gk_log)].url = gk_result
                       /\ cap_pc'[s] = "recording" => cap_url'[s] = gk_result
                  ELSE /\ retries = max_retries
                       /\ cap_pc'[s] # "recording"
                       /\ cap_url'[s].tag # "str"
                       /\ consecutive_failures' = consecutive_failures + 1
                       /\ failed_captures' = failed_captures + 1]_vars

\* a capture whose gatekeeper ran out of retries was counted as one failure,
\* and the next one records from the URL its own acquisition returned
C27_Witness ==
    /\ consecutive_failures = 1
    /\ \E s \in Sessions :
          /\ cap_pc[s] = "recording"
          /\ cap_url[s].tag = "str"
          /\ cap_url[s] = gk_result
    /\ Len(gk_log) = 2
    /\ gk_log[1].url.tag # "str"

\* C28: stream_ended becomes true only at a capture failure that brings
\* consecutive_failures to max_consecutive_failures or more; and whenever the
\* capture loop begins an iteration with that many failures counted, by the
\* failure branch or by the exception handler, stream_ended is true already.
C28_EndedOnceFailuresReachMax ==
    [][/\ (~stream_ended /\ stream_ended')
            => /\ consecutive_failures' >= max_consecutive_failures
               /\ consecutive_failures' = consecutive_failures + 1
               /\ last_event' = "failure"
       /\ \A s \in Sessions :
            (/\ cap_pc[s] = "top" /\ cap_pc'[s] = "start"
             /\ consecutive_failures >= max_consecutive_failures)
               => stream_ended]_vars

\* C29: the std of every baseline is strictly positive in every state of the
\* tracker, and once a calibration has completed, with computed baselines or
\* with the fallback defaults, it is at least its floor: 1.0 for audio, 1.0
\* for motion and 0.1 for scene changes (variances 1, 1 and, in hundredths,
\* 100).
C29_StdAtLeastFloor ==
    /\ \A b \in {tracker.audio_baseline, tracker.motion_baseline,
                 tracker.scene_baseline} : b.var[1] > 0 /\ b.var[2] > 0
    /\ tracker.is_calibrated
         => /\ tracker.audio_baseline.var[1] >= 1 * tracker.audio_baseline.var[2]
            /\ tracker.motion_baseline.var[1] >= 1 * tracker.motion_baseline.var[2]
            /\ tracker.scene_baseline.var[1] >= 100 * tracker.scene_baseline.var[2]

\* a calibration over samples that are all alike has completed: the spread of
\* each channel is 0 and its std is the floor
C29_Witness ==
    /\ tracker.is_calibrated
    /\ tr_last.op = "add_metrics"
    /\ tr_last.before.is_calibrating
    /\ Len(tracker.audio_levels) >= 10
    /\ \A i \in 1..Len(tracker.audio_levels) :
          /\ tracker.audio_levels[i] = tracker.audio_levels[1]
          /\ tracker.scene_changes[i] = tracker.scene_changes[1]
    /\ tracker.audio_baseline.var = <<1, 1>>
    /\ tracker.scene_baseline.var = <<100, 1>>

\* C30: once start_processing has been given a clip length and returned
\* True, clip_cooldown is that clip length, whatever clip length the
\* processor was constructed with.
C30_CooldownIsClipLength ==
    sessions >= 1 => clip_cooldown = clip_length

-----------------------------------------------------------------------------
(* Properties of clip assembly, of sessions and of the loops that share the  *)
(* processor                                                                 *)

\* C31: clips_generated never decreases and grows by one at a time, each
\* time together with exactly one clip-created notification, and only at the
\* end of a copy that had a bucket file to copy: a missing bucket or a failed
\* copy changes neither the counter nor the notifications.
C31_OneClipPerCopy ==
    [][/\ clips_generated' >= clips_generated
       /\ clips_generated' <= clips_generated + 1
       /\ clips_generated' - clips_generated = posts'.clip - posts.clip
       /\ clips_generated' # clips_generated
            => \E s \in Sessions : /\ ana_pc[s] = "copying"
                                   /\ ana_pc'[s] # "copying"
                                   /\ ana_copy[s] # <<>>]_vars

\* the copy of a bucket has succeeded: one clip counted, one notification
C31_Witness ==
    /\ clips_generated = 1
    /\ posts.clip = 1
    /\ last_gate.accepted
    /\ last_clip_time = last_gate.time
    /\ \A s \in Sessions : ana_pc[s] # "copying"

\* C32: start_processing called on a running processor returns False,
\* leaves every field of the processor, the bucket store and the baseline
\* tracker as they are, and starts no thread.
C32_StartRefusedWhileRunning ==
    [][(start_result'.calls # start_result.calls /\ is_running)
          => /\ start_result'.returned = FALSE
             /\ UNCHANGED <<fieldVars, envVars, threadVars>>]_vars

\* start_processing was called with another clip length after a failed
\* capture of the running session, and refused
C32_Witness ==
    /\ start_result.calls = 2
    /\ start_result.returned = FALSE
    /\ is_running
    /\ sessions = 1
    /\ consecutive_failures = 1
    /\ last_successful_capture < now

\* C33: only the loops of the newest session run.  A capture loop that
\* belongs to a stopped session leaves at its next `while self.is_running`
\* test: it never starts another iteration once a newer session has been
\* started, so no two capture loops work side by side.  Stated for the calls
\* made one after the other: stop_processing has returned and the store it
\* released has been replaced by the one of the start_processing that followed.
C33_StoppedLoopsExit ==
    [][\A s \in Sessions :
          (/\ stop_pc = "done"
           /\ ~stream_bucket.isNone
           /\ cap_pc[s] = "top"
           /\ cap_pc'[s] = "start") => s = sessions]_vars


\* C34: stop_processing removes the bucket directory (line 379) and clears
\* stream_bucket (line 380) only between the iterations of the loops: no
\* capture iteration that still calls the store (start_new_bucket, the
\* is_recording_bucket flag, cleanup_old_buckets) and no analysis iteration
\* that reads it is in flight at that moment.
C34_ReleaseBetweenIterations ==
    [][(stop_pc \in {"flag", "cleaned"} /\ stop_pc' # stop_pc)
          => \A s \in Sessions : /\ cap_pc[s] \in {"idle", "top", "done"}
                                 /\ ana_pc[s] \in {"idle", "top", "done"}]_vars


\* C35: the bucket that save_bucket_as_clip copies is the bucket whose sample
\* the analysis loop analysed and found the trigger in; the capture loop
\* going on to its next bucket in the meantime neither changes the file that
\* is copied nor leaves the assembly without a file to copy.  Stated for an
\* analysed bucket whose file is on disk when the copy begins.
C35_CopiesAnalysedBucket ==
    [][\A s \in Sessions :
          (/\ ana_pc[s] = "clip"
           /\ ana_pc'[s] = "copying"
           /\ ana_path[s] \in files) => ana_copy'[s] = ana_path[s]]_vars


\* C36: save_bucket_as_clip copies completed buckets only: when the copy of
\* a file begins, no capture is recording into the store
\* (is_recording_bucket is false), so the file spans the full clip length.
C36_CopiesCompletedBucket ==
    [][\A s \in Sessions :
          (/\ ana_pc[s] = "clip"
           /\ ana_pc'[s] = "copying"
           /\ ana_copy'[s] # <<>>) => ~stream_bucket.is_recording_bucket]_vars


\* C37: a metrics report made from a snapshot carries the values of the
\* snapshot the analysis loop published last: the snapshot the metrics loop
\* takes has the audio, motion and scene values of the newest one.
C37_ReportsNewestSnapshot ==
    [][\A s \in Sessions :
          (met_pc[s] = "report" /\ met_pc'[s] = "top" /\ metrics_queue # <<>>)
             => Head(metrics_queue).metrics
                   = metrics_queue[Len(metrics_queue)].metrics]_vars


\* C38: a start_processing call that returns True leaves the processor with
\* consecutive_failures = 0 and stream_ended = false, whatever the sessions
\* before it did.
C38_SessionStartsClean ==
    [][sessions' = sessions + 1
          => (consecutive_failures' = 0 /\ ~stream_ended')]_vars


\* C39: the calibration that follows start_calibration on a Calibrated
\* tracker uses the samples given after that call and no others: when every
\* sample since the call was the loud one, the audio baseline of the
\* completed calibration has the loud level as its mean.
C39_BaselineFromNewSamples ==
    (/\ tracker.is_calibrated
     /\ tr_last.op = "add_metrics"
     /\ tr_last.before.is_calibrating)
       => tracker.audio_baseline.mean[1] = LoudSample[1] * tracker.audio_baseline.mean[2]


\* C40: once the analysis loop is past the clip assembly of an accepted
\* trigger, last_clip_time is the time of that trigger, whether a clip was
\* copied, the copy failed or there was no bucket to copy: the last trigger
\* the cooldown gate accepted always started the cooldown period.
C40_CooldownStartsWhateverTheOutcome ==
    (\A s \in Sessions : ana_pc[s] \notin {"clip", "copying"})
       => IF last_gate.accepted
          THEN last_clip_time = last_gate.time
          ELSE last_gate.previous # NoneTime
                  => last_clip_time = last_gate.previous

\* an accepted trigger whose assembly produced no clip has set
\* last_clip_time to its own time
C40_Witness ==
    /\ last_gate.accepted
    /\ last_gate.time > 0
    /\ last_clip_time = last_gate.time
    /\ clips_generated = 0
    /\ posts.clip = 0
    /\ \A s \in Sessions : ana_pc[s] \notin {"clip", "copying"}

=============================================================================
